---------------------------- MODULE Spec2Model ----------------------------
(***************************************************************************)
(* Web-Audio-Mastering: the DSP worker's render chain, the settings        *)
(* validator, the LUFS meter's short-buffer guard, the LUFS normalizer and *)
(* the lookahead true-peak limiter.                                        *)
(*                                                                         *)
(* Sample values, gains and ceilings are fixed-point integers in units of  *)
(* 1/Q (Q = 1000), gains and filter coefficients in units of 1/GQ          *)
(* (GQ = 1000000); decibel values are whole numbers.                       *)
(***************************************************************************)
EXTENDS Integers, Sequences, FiniteSets, TLC

VARIABLES
    callArgs,   \* arguments of the function under evaluation; in the render
                \* system, the audio buffer and settings of the session
    callRet,    \* its return value(s), in call order
    callPc,     \* position in the function: "ready", ..., "done"
    work,       \* local variables of a function evaluated in several steps
    dspWorker,  \* DSPWorkerInterface: worker, isReady, nextId, pending
    calls,      \* renderFullChain calls of the main thread, by mode
    toWorker,   \* request messages posted to the worker, not yet received
    toMain,     \* messages posted by the worker, not yet handled
    wk,         \* the worker's onmessage handler: position and locals
    posted,     \* every terminal response the worker has posted so far
    thrown      \* ids of the requests whose handling raised an exception

funVars == << callRet, callPc, work >>

chainVars == << dspWorker, calls, toWorker, toMain, wk, posted, thrown >>

vars == << callArgs, callRet, callPc, work,
           dspWorker, calls, toWorker, toMain, wk, posted, thrown >>

\* the render system before construction, for the function specifications
NoChain ==
    /\ dspWorker = << >>
    /\ calls = << >>
    /\ toWorker = << >>
    /\ toMain = << >>
    /\ wk = << >>
    /\ posted = << >>
    /\ thrown = {}

Min2(a, b) == IF a <= b THEN a ELSE b
Max2(a, b) == IF a >= b THEN a ELSE b
Abs(x) == IF x < 0 THEN -x ELSE x
Sign(x) == IF x > 0 THEN 1 ELSE IF x < 0 THEN -1 ELSE 0

(***************************************************************************)
(* JavaScript values, as far as validateSettings can tell them apart.      *)
(***************************************************************************)
Undefined == [t |-> "undefined", v |-> 0]
Null      == [t |-> "null", v |-> 0]
NaN       == [t |-> "nan", v |-> 0]
JSNum(n)  == [t |-> "number", v |-> n]
JSBool(b) == [t |-> "boolean", v |-> b]
JSStr(s)  == [t |-> "string", v |-> s]
JSInf(sg) == [t |-> "infinity", v |-> sg]     \* +Infinity (1) or -Infinity (-1)
JSSymbol  == [t |-> "symbol", v |-> 0]
JSObject  == [t |-> "object", v |-> 0]        \* a plain {} value

\* The exception a call ends with instead of a return value.
TypeError == [t |-> "TypeError", v |-> 0]

\* Number(value): ToNumber of the ECMAScript specification.
StringToNumber(s) ==
    CASE s = ""      -> JSNum(0)
      [] s = "0"     -> JSNum(0)
      [] s = "-1"    -> JSNum(-1)
      [] s = "5"     -> JSNum(5)
      [] s = "24"    -> JSNum(24)
      [] s = "48000" -> JSNum(48000)
      [] OTHER       -> NaN

ToNumber(x) ==
    CASE x.t = "number"    -> x
      [] x.t = "nan"       -> NaN
      [] x.t = "infinity"  -> x
      [] x.t = "boolean"   -> JSNum(IF x.v THEN 1 ELSE 0)
      [] x.t = "string"    -> StringToNumber(x.v)
      [] x.t = "null"      -> JSNum(0)
      [] x.t = "undefined" -> NaN
      [] x.t = "object"    -> NaN
      [] x.t = "symbol"    -> TypeError

\* Boolean(value): ToBoolean.
ToBoolean(x) ==
    CASE x.t = "boolean"   -> x.v
      [] x.t = "number"    -> x.v # 0
      [] x.t = "nan"       -> FALSE
      [] x.t = "string"    -> x.v # ""
      [] x.t = "undefined" -> FALSE
      [] x.t = "null"      -> FALSE
      [] OTHER             -> TRUE

(***************************************************************************)
(* audioConstants.js: SETTINGS_SCHEMA and validateSettings.                *)
(***************************************************************************)
BoolKey(d)            == [type |-> "boolean", default |-> JSBool(d),
                          ranged |-> FALSE, min |-> 0, max |-> 0, allowed |-> {}]
RangeKey(d, lo, hi)   == [type |-> "number", default |-> JSNum(d),
                          ranged |-> TRUE, min |-> lo, max |-> hi, allowed |-> {}]
AllowedKey(d, al)     == [type |-> "number", default |-> JSNum(d),
                          ranged |-> FALSE, min |-> 0, max |-> 0, allowed |-> al]

\* A schema whose truePeakCeiling default lies outside its own [min, max].
SchemaDefaultOutOfRange ==
    [ normalizeLoudness |-> BoolKey(TRUE),
      truePeakLimit     |-> BoolKey(TRUE),
      truePeakCeiling   |-> RangeKey(1, -3, 0),
      glueCompression   |-> BoolKey(FALSE),
      cleanLowEnd       |-> BoolKey(TRUE),
      centerBass        |-> BoolKey(FALSE),
      cutMud            |-> BoolKey(FALSE),
      addAir            |-> BoolKey(FALSE),
      tameHarsh         |-> BoolKey(FALSE),
      sampleRate        |-> AllowedKey(44100, {44100, 48000}),
      bitDepth          |-> AllowedKey(16, {16, 24}),
      eqLow             |-> RangeKey(0, -12, 12),
      eqLowMid          |-> RangeKey(0, -12, 12),
      eqMid             |-> RangeKey(0, -12, 12),
      eqHighMid         |-> RangeKey(0, -12, 12),
      eqHigh            |-> RangeKey(0, -12, 12) ]

SETTINGS_SCHEMA ==
    [ normalizeLoudness |-> BoolKey(TRUE),
      truePeakLimit     |-> BoolKey(TRUE),
      truePeakCeiling   |-> RangeKey(-1, -3, 0),
      glueCompression   |-> BoolKey(FALSE),
      cleanLowEnd       |-> BoolKey(TRUE),
      centerBass        |-> BoolKey(FALSE),
      cutMud            |-> BoolKey(FALSE),
      addAir            |-> BoolKey(FALSE),
      tameHarsh         |-> BoolKey(FALSE),
      sampleRate        |-> AllowedKey(44100, {44100, 48000}),
      bitDepth          |-> AllowedKey(16, {16, 24}),
      eqLow             |-> RangeKey(0, -12, 12),
      eqLowMid          |-> RangeKey(0, -12, 12),
      eqMid             |-> RangeKey(0, -12, 12),
      eqHighMid         |-> RangeKey(0, -12, 12),
      eqHigh            |-> RangeKey(0, -12, 12) ]

SchemaKeys == DOMAIN SETTINGS_SCHEMA

\* One iteration of the loop of validateSettings: the value stored under a
\* key, or TypeError when the coercion throws.
ValidateKey(schema, value) ==
    IF value.t \in {"undefined", "null"} THEN schema.default
    ELSE IF schema.type = "boolean" THEN JSBool(ToBoolean(value))
    ELSE IF schema.type = "number" THEN
        LET n == ToNumber(value) IN
        IF n = TypeError THEN TypeError
        ELSE IF n.t = "nan" THEN schema.default
        ELSE IF schema.allowed # {} THEN
            IF n.t = "number" /\ n.v \in schema.allowed THEN n ELSE schema.default
        ELSE IF n.t = "infinity" THEN
            JSNum(IF n.v > 0 THEN schema.max ELSE schema.min)
        ELSE JSNum(Max2(schema.min, Min2(schema.max, n.v)))
    ELSE value

\* validateSettings(settings = {}): settings is undefined, null, or an object
\* (a function from the keys it carries to values; a missing key reads as
\* undefined).  The result is the validated object, or TypeError.
GetProp(obj, key) == IF key \in DOMAIN obj.v THEN obj.v[key] ELSE Undefined

validateSettings(settings) ==
    IF settings = TypeError THEN TypeError        \* the argument expression threw
    ELSE IF settings.t = "null" THEN TypeError    \* settings[key] on null
    ELSE
        LET obj == IF settings.t = "undefined"
                   THEN [t |-> "settings", v |-> << >>]
                   ELSE settings
            out == [k \in SchemaKeys |-> ValidateKey(SETTINGS_SCHEMA[k], GetProp(obj, k))]
        IN IF \E k \in SchemaKeys : out[k] = TypeError
           THEN TypeError
           ELSE [t |-> "settings", v |-> out]

(***************************************************************************)
(* Inputs of validateSettings.                                             *)
(***************************************************************************)
MaxSetKeys == 1     \* keys an input object sets to something

JSValues ==
    { Undefined, Null, NaN, JSSymbol, JSObject, JSInf(1), JSInf(-1),
      JSBool(TRUE), JSBool(FALSE),
      JSStr(""), JSStr("abc"), JSStr("24"), JSStr("48000"), JSStr("5") }
    \cup { JSNum(n) : n \in {-13, -12, -4, -3, -1, 0, 1, 5, 12, 13, 16, 24, 32, 44100, 48000} }

KeySets == { ks \in SUBSET SchemaKeys : Cardinality(ks) <= MaxSetKeys }

\* a raw settings object with the keys ks set
SettingsObjects(ks) == { [t |-> "settings", v |-> f] : f \in [ks -> JSValues] }

(***************************************************************************)
(* Specification of the validator: validate an input, then validate the    *)
(* result again.                                                           *)
(***************************************************************************)
InitSettings ==
    /\ \/ \E ks \in KeySets : callArgs \in SettingsObjects(ks)
       \/ callArgs \in { Undefined, Null }
    /\ callRet = << >>
    /\ callPc = "ready"
    /\ work = << >>
    /\ NoChain

Validate ==
    /\ callPc = "ready"
    /\ callRet' = << validateSettings(callArgs) >>
    /\ callPc' = "done"
    /\ UNCHANGED << callArgs, work, chainVars >>

Revalidate ==
    /\ callPc = "done"
    /\ callRet' = Append(callRet, validateSettings(callRet[1]))
    /\ callPc' = "redone"
    /\ UNCHANGED << callArgs, work, chainVars >>

NextSettings == Validate \/ Revalidate

SpecSettings == InitSettings /\ [][NextSettings]_vars

\* A validated value is acceptable for its schema entry.
ValidFor(schema, x) ==
    \/ x = schema.default
    \/ x.t = "boolean"
    \/ x.t = "number" /\ schema.allowed # {} /\ x.v \in schema.allowed
    \/ x.t = "number" /\ schema.ranged /\ schema.min <= x.v /\ x.v <= schema.max

\* C8: for every input value, validateSettings returns (does not throw) a
\* settings object whose every schema key holds the default, a boolean, an
\* allowed member or a number within [min, max].
C8_NeverThrowsAlwaysValid ==
    callPc = "done" =>
        /\ callRet[1] # TypeError
        /\ \A k \in SchemaKeys : ValidFor(SETTINGS_SCHEMA[k], callRet[1].v[k])

\* C9: validation is idempotent: validating a validated result returns it
\* unchanged (an exception of the first call propagates through the second).
C9_ValidateIdempotent ==
    callPc = "redone" => callRet[2] = callRet[1]

\* C9 witness: a non-default, out-of-range input was clamped, and the second
\* validation has run on the clamped object.
C9_Witness ==
    /\ callPc = "redone"
    /\ callArgs.t = "settings"
    /\ "truePeakCeiling" \in DOMAIN callArgs.v
    /\ callArgs.v["truePeakCeiling"] = JSNum(5)
    /\ callRet[1].v["truePeakCeiling"] = JSNum(0)

(***************************************************************************)
(* lufs.js measureLUFS / dsp-worker.js measureLUFSFromChannels.            *)
(*                                                                         *)
(* A buffer is [length, sampleRate, numberOfChannels, blockMS]; blockMS[b] *)
(* is the K-weighted mean square of measurement block b,                   *)
(* sumSquares / (blockSize * numChannels), in units of 1e-8.               *)
(***************************************************************************)
ABSOLUTE_GATE_LINEAR == 10      \* 1e-7, in units of 1e-8

\* Math.floor(sampleRate * BLOCK_SIZE_SEC), BLOCK_SIZE_SEC = 0.4
BlockSize(sampleRate) == (sampleRate * 4) \div 10

\* Math.floor(sampleRate * BLOCK_SIZE_SEC * (1 - BLOCK_OVERLAP)), overlap 0.75
HopSize(sampleRate) == (sampleRate * 4 * 25) \div 1000

\* The block loop: for (start = 0; start + blockSize <= length; start += hopSize)
NumBlocks(length, sampleRate) ==
    IF length < BlockSize(sampleRate) THEN 0
    ELSE ((length - BlockSize(sampleRate)) \div HopSize(sampleRate)) + 1

\* A guard that compares the duration with the hop (100 ms), not the block.
TooShortForHop(buf) == buf.length * 10 < buf.sampleRate

\* audioBuffer.duration < LUFS_CONSTANTS.BLOCK_SIZE_SEC, duration = length / sampleRate
TooShort(buf) == buf.length * 10 < buf.sampleRate * 4

RECURSIVE SumSeq(_)
SumSeq(s) == IF s = << >> THEN 0 ELSE Head(s) + SumSeq(Tail(s))

\* The value LOUDNESS_OFFSET + 10 * log10(sum / n), kept as the mean it is taken of.
Loudness(sum, n) == [t |-> "lufs", sum |-> sum, n |-> n]

GatedLoudness(buf) ==
    LET blocks == buf.blockMS
        gated1 == SelectSeq(blocks, LAMBDA ms : ms > ABSOLUTE_GATE_LINEAR)
        \* ms > ungatedMean * RELATIVE_GATE_OFFSET (0.1), ungatedMean = sum / count
        gated2 == SelectSeq(gated1,
                      LAMBDA ms : ms * 10 * Len(gated1) > SumSeq(gated1))
    IN  IF Len(blocks) = 0 THEN JSInf(-1)
        ELSE IF Len(gated1) = 0 THEN JSInf(-1)
        ELSE IF Len(gated2) = 0 THEN JSInf(-1)
        ELSE Loudness(SumSeq(gated2), Len(gated2))

\* measureLUFS(audioBuffer, fallbackLufs = -14)
measureLUFS(buf, fallbackLufs) ==
    LET fb == IF fallbackLufs.t = "undefined" THEN JSNum(-14) ELSE fallbackLufs
    IN  IF TooShort(buf) THEN fb ELSE GatedLoudness(buf)

MaxBlocks == 3      \* measurement blocks in the longest buffer

SampleRates == {44100, 48000}
BlockEnergies == {0, 5, 400, 90000}     \* silence, below the absolute gate, quiet, loud

BufferLengths(sr) ==
    {0, 1, HopSize(sr), BlockSize(sr) - 1}
    \cup { BlockSize(sr) + k * HopSize(sr) : k \in 0..(MaxBlocks - 1) }
    \cup { BlockSize(sr) + k * HopSize(sr) - 1 : k \in 1..(MaxBlocks - 1) }

LufsBuffers ==
    UNION { UNION { { [length |-> n, sampleRate |-> sr, numberOfChannels |-> c, blockMS |-> e]
                        : e \in [1..NumBlocks(n, sr) -> BlockEnergies], c \in {1, 2} }
                    : n \in BufferLengths(sr) }
            : sr \in SampleRates }

Fallbacks == { Undefined, JSNum(-14), JSNum(-23), JSNum(-9) }

InitLufs ==
    /\ callArgs \in { [buffer |-> b, fallbackLufs |-> f] : b \in LufsBuffers, f \in Fallbacks }
    /\ callRet = << >>
    /\ callPc = "ready"
    /\ work = << >>
    /\ NoChain

Measure ==
    /\ callPc = "ready"
    /\ callRet' = << measureLUFS(callArgs.buffer, callArgs.fallbackLufs) >>
    /\ callPc' = "done"
    /\ UNCHANGED << callArgs, work, chainVars >>

NextLufs == Measure

SpecLufs == InitLufs /\ [][NextLufs]_vars

\* C10: a buffer shorter than one 400 ms block measures as the caller's
\* fallback (-14 when none is passed): not -Infinity, not an exception.
C10_ShortBufferFallback ==
    (callPc = "done" /\ callArgs.buffer.length < BlockSize(callArgs.buffer.sampleRate)) =>
        /\ callRet[1] = (IF callArgs.fallbackLufs = Undefined THEN JSNum(-14)
                         ELSE callArgs.fallbackLufs)
        /\ callRet[1] # JSInf(-1)
        /\ callRet[1] # TypeError

\* C10 witness: exactly blockSize - 1 samples, fallback -23 returned.
C10_Witness ==
    /\ callPc = "done"
    /\ callArgs.buffer.length = BlockSize(callArgs.buffer.sampleRate) - 1
    /\ callArgs.fallbackLufs = JSNum(-23)
    /\ callRet[1] = JSNum(-23)

\* C11 as stated: an all-zero buffer of any length measures as the fallback
\* value.  Filtering zeros gives zeros, so the buffer is all-zero exactly
\* when every block's mean square is 0.
C11_SilenceFallback ==
    (callPc = "done" /\ \A b \in 1..Len(callArgs.buffer.blockMS) : callArgs.buffer.blockMS[b] = 0) =>
        callRet[1] = (IF callArgs.fallbackLufs = Undefined THEN JSNum(-14)
                      ELSE callArgs.fallbackLufs)

(***************************************************************************)
(* normalizer.js normalizeToLUFS / dsp-worker.js normalizeChannelsToLUFS.  *)
(*                                                                         *)
(* Levels are whole decibels.  A buffer is [measurable, lufs, peakDB]:     *)
(* measurable says its duration reaches one LUFS block, lufs is its        *)
(* integrated loudness then (a number or -Infinity), peakDB its true peak  *)
(* in dBTP (a number, or -Infinity for silence).                           *)
(***************************************************************************)
\* measureLUFS(audioBuffer, targetLUFS) as the normalizer sees it
MeasuredLUFS(buf, fallbackLufs) == IF buf.measurable THEN buf.lufs ELSE fallbackLufs

\* x + y on numbers and -Infinity
JSAdd(x, y) == IF x.t = "infinity" THEN x
               ELSE IF y.t = "infinity" THEN y
               ELSE JSNum(x.v + y.v)

\* x > y on numbers and -Infinity
JSGreater(x, y) == IF x.t = "infinity" THEN FALSE
                   ELSE IF y.t = "infinity" THEN TRUE
                   ELSE x.v > y.v

\* A test that compares the peak measured before the gain with the ceiling.
PeakBeforeGainExceedsCeiling(currentPeakDB, lufsGainDB, ceilingDB) ==
    JSGreater(currentPeakDB, ceilingDB)

\* projectedPeakDB > ceilingDB, projectedPeakDB = currentPeakDB + lufsGainDB
ProjectedPeakExceedsCeiling(currentPeakDB, lufsGainDB, ceilingDB) ==
    JSGreater(JSAdd(currentPeakDB, lufsGainDB), ceilingDB)

\* What the normalizer returns: the input itself, the gained copy, or the
\* gained copy passed through applyLookaheadLimiter(gained, ceilingLinear, 3, 100).
Unchanged(buf) ==
    [route |-> "original", gainDB |-> JSNum(0), peakDB |-> buf.peakDB, limiter |-> << >>]
Gained(buf, gainDB) ==
    [route |-> "gained", gainDB |-> gainDB, peakDB |-> JSAdd(buf.peakDB, gainDB),
     limiter |-> << >>]
Limited(buf, gainDB, ceilingDB) ==
    [route |-> "limited", gainDB |-> gainDB, peakDB |-> JSAdd(buf.peakDB, gainDB),
     limiter |-> << [ceilingDB |-> ceilingDB, lookaheadMs |-> 3, releaseMs |-> 100] >>]

\* normalizeToLUFS(audioBuffer, targetLUFS = -14, ceilingDB = -1, options = {})
normalizeToLUFS(buf, targetLUFS, ceilingDB, options) ==
    LET currentLUFS == MeasuredLUFS(buf, targetLUFS)
        currentPeakDB == buf.peakDB
        lufsGainDB == JSNum(targetLUFS.v - currentLUFS.v)
    IN  IF currentLUFS.t = "infinity" THEN Unchanged(buf)
        ELSE IF ToBoolean(GetProp(options, "skipLimiter")) THEN Gained(buf, lufsGainDB)
        ELSE IF ProjectedPeakExceedsCeiling(currentPeakDB, lufsGainDB, ceilingDB)
             THEN Limited(buf, lufsGainDB, ceilingDB)
        ELSE Gained(buf, lufsGainDB)

\* normalizeChannelsToLUFS(channels, sampleRate, id, targetLUFS = -14, ceilingDB = -1)
normalizeChannelsToLUFS(buf, targetLUFS, ceilingDB) ==
    LET currentLUFS == MeasuredLUFS(buf, targetLUFS)
        currentPeakDB == buf.peakDB
        lufsGainDB == JSNum(targetLUFS.v - currentLUFS.v)
    IN  IF currentLUFS.t = "infinity" THEN Unchanged(buf)
        ELSE IF ProjectedPeakExceedsCeiling(currentPeakDB, lufsGainDB, ceilingDB)
             THEN Limited(buf, lufsGainDB, ceilingDB)
        ELSE Gained(buf, lufsGainDB)

LoudnessLevels == { JSInf(-1), JSNum(-30), JSNum(-20), JSNum(-14), JSNum(-9) }
PeakLevels     == { JSInf(-1), JSNum(-12), JSNum(-6), JSNum(-1), JSNum(0) }
TargetLevels   == { JSNum(-23), JSNum(-14), JSNum(-9) }
CeilingLevels  == { JSNum(-3), JSNum(-1), JSNum(0) }
NormalizeOptions ==
    { [t |-> "object", v |-> << >>],
      [t |-> "object", v |-> [skipLimiter |-> JSBool(TRUE)]],
      [t |-> "object", v |-> [skipLimiter |-> JSBool(FALSE)]] }

NormalizerBuffers ==
    { [measurable |-> m, lufs |-> l, peakDB |-> p]
        : m \in BOOLEAN, l \in LoudnessLevels, p \in PeakLevels }

InitNormalizer ==
    /\ callArgs \in { [buffer |-> b, targetLUFS |-> t, ceilingDB |-> c, options |-> o]
                        : b \in NormalizerBuffers, t \in TargetLevels,
                          c \in CeilingLevels, o \in NormalizeOptions }
    /\ callRet = << >>
    /\ callPc = "ready"
    /\ work = << >>
    /\ NoChain

\* The main-thread normalizer.
Normalize ==
    /\ callPc = "ready"
    /\ callRet' = << normalizeToLUFS(callArgs.buffer, callArgs.targetLUFS,
                                     callArgs.ceilingDB, callArgs.options) >>
    /\ callPc' = "done"
    /\ UNCHANGED << callArgs, work, chainVars >>

\* The worker's NORMALIZE request, which has no skipLimiter option.
NormalizeChannels ==
    /\ callPc = "ready"
    /\ callArgs.options.v = << >>
    /\ callRet' = << normalizeChannelsToLUFS(callArgs.buffer, callArgs.targetLUFS,
                                             callArgs.ceilingDB) >>
    /\ callPc' = "done"
    /\ UNCHANGED << callArgs, work, chainVars >>

NextNormalizer == Normalize \/ NormalizeChannels

SpecNormalizer == InitNormalizer /\ [][NextNormalizer]_vars

\* C5: without skipLimiter, a gain whose projected true peak (measured peak +
\* gain) exceeds the ceiling is routed through the limiter, and no gain-only
\* buffer is returned with a projected peak above the ceiling.
C5_ProjectedPeakRoutesToLimiter ==
    (callPc = "done" /\ ~ToBoolean(GetProp(callArgs.options, "skipLimiter"))) =>
        /\ (callRet[1].route = "gained" =>
                ~JSGreater(callRet[1].peakDB, callArgs.ceilingDB))
        /\ (  /\ MeasuredLUFS(callArgs.buffer, callArgs.targetLUFS).t = "number"
              /\ JSGreater(JSAdd(callArgs.buffer.peakDB,
                                 JSNum(callArgs.targetLUFS.v
                                       - MeasuredLUFS(callArgs.buffer, callArgs.targetLUFS).v)),
                           callArgs.ceilingDB)
            => /\ callRet[1].route = "limited"
               /\ callRet[1].limiter[1].ceilingDB = callArgs.ceilingDB)

\* C5 witness: a -20 LUFS buffer peaking at -6 dBTP, normalized to -9 LUFS under
\* a -1 dBTP ceiling (projected peak +5 dBTP), came back limited.
C5_Witness ==
    /\ callPc = "done"
    /\ callArgs.buffer = [measurable |-> TRUE, lufs |-> JSNum(-20), peakDB |-> JSNum(-6)]
    /\ callArgs.targetLUFS = JSNum(-9)
    /\ callArgs.ceilingDB = JSNum(-1)
    /\ callArgs.options.v = << >>
    /\ callRet[1].route = "limited"

(***************************************************************************)
(* Fixed-point arithmetic.  A sample x is the integer Q * x; a gain or a   *)
(* smoothing coefficient g is the integer GQ * g.                          *)
(***************************************************************************)
Q  == 1000
GQ == 1000000

\* a / b rounded to the nearest integer (b > 0)
DivRound(a, b) == (2 * a + b) \div (2 * b)

RECURSIVE ISqrtIn(_, _, _)
ISqrtIn(n, lo, hi) ==
    IF lo >= hi THEN lo
    ELSE LET mid == (lo + hi + 1) \div 2
         IN  IF mid * mid <= n THEN ISqrtIn(n, mid, hi) ELSE ISqrtIn(n, lo, mid - 1)

\* Math.sqrt on a value in units of 1/Q^2, result in units of 1/Q
ISqrt(n) == ISqrtIn(n, 0, Min2(n, 46340))

\* Math.sqrt on a value in units of 1/Q
SqrtQ(x) == ISqrt(x * Q)

\* Math.tanh(x), x >= 0 in units of 1/Q: the Pade approximant
\* x (27 + x^2) / (27 + 9 x^2), exact to 1/Q below 1 and capped at 1.
Tanh(x) ==
    IF x >= 3 * Q THEN Q
    ELSE LET x2 == (x * x) \div Q
         IN  Min2(Q, (x * (27 * Q + x2)) \div (27 * Q + 9 * x2))

RECURSIVE SeqMax(_)
SeqMax(s) == IF s = << >> THEN 0 ELSE Max2(Head(s), SeqMax(Tail(s)))

(***************************************************************************)
(* dsp-worker.js calculateTruePeakSample: Catmull-Rom interpolation at     *)
(* t = 1/4, 2/4, 3/4 between y1 and y2.  Interp128 is 128 times the        *)
(* interpolated value and is exact.                                        *)
(***************************************************************************)
Interp128(y0, y1, y2, y3, j) ==
    LET a0 == -y0 + 3 * y1 - 3 * y2 + y3          \* 2 * a0
        a1 == 2 * y0 - 5 * y1 + 4 * y2 - y3       \* 2 * a1
        a2 == -y0 + y2                            \* 2 * a2
        a3 == 2 * y1                              \* 2 * a3
    IN  a0 * j * j * j + a1 * 4 * j * j + a2 * 16 * j + a3 * 64

TruePeak128(p) ==
    SeqMax(<< 128 * Abs(p[3]),
              Abs(Interp128(p[1], p[2], p[3], p[4], 1)),
              Abs(Interp128(p[1], p[2], p[3], p[4], 2)),
              Abs(Interp128(p[1], p[2], p[3], p[4], 3)) >>)

calculateTruePeakSample(prevSamples) == DivRound(TruePeak128(prevSamples), 128)

\* prevSamples after the shift of iteration i (0-based) over channel ch
PrevSamples(ch, i) ==
    [k \in 1..4 |-> IF i - 4 + k >= 0 THEN ch[i - 4 + k + 1] ELSE 0]

(***************************************************************************)
(* dsp-worker.js applySoftKneeCurve and applySoftKneeOversampled.          *)
(***************************************************************************)
\* Math.pow(10, kneeDB / 20), in units of 1/Q
KneeRatio(kneeDB) ==
    CASE kneeDB = 3 -> 1413
      [] kneeDB = 6 -> 1995
      [] OTHER      -> Q

applySoftKneeCurve(sample, ceiling, kneeDB) ==
    LET absSample == Abs(sample)
        kneeStart == (ceiling * Q) \div KneeRatio(kneeDB)
    IN  IF absSample * 10 <= ceiling * 9 THEN sample
        ELSE IF absSample <= kneeStart THEN sample
        ELSE IF absSample <= ceiling THEN
            LET t == ((absSample - kneeStart) * Q) \div (ceiling - kneeStart)
                blend == (((t * t) \div Q) * (3 * Q - 2 * t)) \div Q
            IN  Sign(sample) * (absSample + ((ceiling - absSample) * blend) \div (2 * Q))
        ELSE
            LET excess == absSample - ceiling
                normalized == (excess * Q) \div ceiling
                compression == Q - Tanh(normalized * 2) \div 10
            IN  Sign(sample) * Min2(ceiling, (absSample * compression) \div Q)

\* A sample that is NaN.  Every comparison with it is false and every sum or
\* product with it is NaN again.
NaNSample == 1000000000

\* One output sample of applySoftKneeOversampled (i is 0-based).  A NaN
\* sample falls through every branch of applySoftKneeCurve and comes back
\* NaN; a NaN among the earlier samples makes the interpolated values NaN,
\* which never replace maxInterpolated = |y2|.
SoftKneeSample(input, i, ceiling, kneeDB) ==
    IF input[i + 1] = NaNSample THEN NaNSample
    ELSE IF i < 3 THEN applySoftKneeCurve(input[i + 1], ceiling, kneeDB)
    ELSE LET p == PrevSamples(input, i)
             maxInterpolated128 == IF p[3] = NaNSample THEN 0
                                   ELSE IF p[1] = NaNSample \/ p[2] = NaNSample
                                   THEN 128 * Abs(p[3])
                                   ELSE TruePeak128(p)
         IN  IF maxInterpolated128 > ceiling * 128
             THEN applySoftKneeCurve(
                      Sign(input[i + 1])
                        * ((Abs(input[i + 1]) * ceiling * 128) \div maxInterpolated128),
                      ceiling, kneeDB)
             ELSE applySoftKneeCurve(input[i + 1], ceiling, kneeDB)

applySoftKneeOversampled(input, ceiling, kneeDB) ==
    [i \in 1..Len(input) |-> SoftKneeSample(input, i - 1, ceiling, kneeDB)]

(***************************************************************************)
(* dsp-worker.js applyLookaheadLimiterToChannels, evaluated in steps: the  *)
(* transient analysis, one iteration of the lookahead loop per step, the   *)
(* release pass, and the gain and soft-knee pass.  callArgs holds the      *)
(* arguments (lookaheadUs is lookaheadMs in microseconds), work the locals *)
(* transientMap, gainEnvelope and the loop index i.                        *)
(***************************************************************************)
\* Math.exp(-1 / n), in units of 1/GQ
ExpNegInv(n) ==
    CASE n = 0    -> 0
      [] n = 48   -> 979382
      [] n = 480  -> 997919
      [] n = 2400 -> 999583
      [] n = 4800 -> 999792
      [] OTHER    -> GQ

LookaheadSamples(sampleRate, lookaheadUs) == ((sampleRate \div 1000) * lookaheadUs) \div 1000

ReleaseCoef(sampleRate, releaseMs) == ExpNegInv((releaseMs * sampleRate) \div 1000)

RECURSIVE SumSquares(_, _)
SumSquares(channels, i) ==
    IF channels = << >> THEN 0
    ELSE Head(channels)[i + 1] * Head(channels)[i + 1] + SumSquares(Tail(channels), i)

SampleSum(channels, i) == SumSquares(channels, i) \div Len(channels)

RECURSIVE RmsSum(_, _, _)
RmsSum(channels, lo, hi) ==
    IF lo > hi THEN 0 ELSE SampleSum(channels, hi) + RmsSum(channels, lo, hi - 1)

RmsEnvelope(channels, i, windowSamples) ==
    ISqrt(RmsSum(channels, Max2(0, i - windowSamples + 1), i)
            \div Min2(i + 1, windowSamples))

PeakAt(channels, i) == SeqMax([ch \in 1..Len(channels) |-> Abs(channels[ch][i + 1])])

RECURSIVE PeakEnvelope(_, _, _)
PeakEnvelope(channels, i, sampleRate) ==
    LET peakLevel   == IF i = 0 THEN 0 ELSE PeakEnvelope(channels, i - 1, sampleRate)
        peak        == PeakAt(channels, i)
        peakAttack  == ExpNegInv(sampleRate \div 1000)
        peakRelease == ExpNegInv(sampleRate \div 20)
    IN  IF peak > peakLevel
        THEN (peakAttack * peakLevel + (GQ - peakAttack) * peak) \div GQ
        ELSE (peakRelease * peakLevel + (GQ - peakRelease) * peak) \div GQ

\* The crest ratio peakEnvelope[i] / rmsEnvelope[i] in units of 1/Q, or 0
\* where rmsEnvelope[i] <= 0.0001.  transientMap[i] is
\* clamp((20 log10(ratio) - 6) / 4, 0, 1), a monotone function of the ratio;
\* the model carries the ratio and derives from it the two things the
\* limiter reads from transientMap[i].
CrestRatio(channels, i, sampleRate) ==
    LET rms == RmsEnvelope(channels, i, (sampleRate * 10) \div 1000)
    IN  IF rms * 10000 > Q
        THEN (PeakEnvelope(channels, i, sampleRate) * Q) \div rms
        ELSE 0

\* transientMap[i] > 0.5, i.e. a crest factor above 8 dB (10^(8/20))
TransientAboveHalf(ratio) == ratio > 2512

\* Math.pow(10, transientMap[i] * 0.5 / 20) in units of 1/Q:
\* 10^(-6/160) * ratio^(1/8), at most 10^(1/40)
CeilingBoost(ratio) == Min2(1059, (917 * SqrtQ(SqrtQ(SqrtQ(ratio)))) \div Q)

EffectiveCeiling(args, w) ==
    IF args.preserveTransients /\ w.transientMap # << >>
       /\ TransientAboveHalf(w.transientMap[w.i + 1])
    THEN (args.ceilingLinear * CeilingBoost(w.transientMap[w.i + 1])) \div Q
    ELSE args.ceilingLinear

\* truePeak of iteration i over the first two channels
TruePeakAt(channels, i) ==
    IF i < 3 THEN 0
    ELSE Max2(calculateTruePeakSample(PrevSamples(channels[1], i)),
              IF Len(channels) > 1
              THEN calculateTruePeakSample(PrevSamples(channels[2], i))
              ELSE 0)

RequiredGain(args, w) ==
    LET truePeak == TruePeakAt(args.channels, w.i)
        effectiveCeiling == EffectiveCeiling(args, w)
    IN  IF truePeak > effectiveCeiling
        THEN (effectiveCeiling * GQ) \div truePeak
        ELSE GQ

\* A gain that is NaN.
NaNGain == -1

\* A lookahead loop that stores the interpolated gain instead of the minimum.
ScheduleReductionOverwriting(args, w) ==
    LET lookaheadSamples == LookaheadSamples(args.sampleRate, args.lookaheadUs)
        requiredGain == RequiredGain(args, w)
        targetIndex  == Max2(0, w.i - lookaheadSamples)
        g            == w.gainEnvelope
    IN  IF g[targetIndex + 1] # NaNGain /\ requiredGain < g[targetIndex + 1]
        THEN [j \in 1..Len(g) |->
                IF j - 1 >= targetIndex /\ j - 1 <= w.i
                THEN IF lookaheadSamples = 0 \/ g[j] = NaNGain THEN NaNGain
                     ELSE g[targetIndex + 1]
                            + DivRound((requiredGain - g[targetIndex + 1]) * (j - 1 - targetIndex),
                                       lookaheadSamples)
                ELSE g[j]]
        ELSE g

\* gainEnvelope after the inner loop of iteration w.i.  With lookaheadSamples
\* = 0 the loop runs for j = targetIndex = i only, progress is 0 / 0 and
\* Math.min(gainEnvelope[j], NaN) is NaN.
ScheduleReduction(args, w) ==
    LET lookaheadSamples == LookaheadSamples(args.sampleRate, args.lookaheadUs)
        requiredGain == RequiredGain(args, w)
        targetIndex  == Max2(0, w.i - lookaheadSamples)
        g            == w.gainEnvelope
    IN  IF g[targetIndex + 1] # NaNGain /\ requiredGain < g[targetIndex + 1]
        THEN [j \in 1..Len(g) |->
                IF j - 1 >= targetIndex /\ j - 1 <= w.i
                THEN IF lookaheadSamples = 0 \/ g[j] = NaNGain THEN NaNGain
                     ELSE Min2(g[j],
                               g[targetIndex + 1]
                                 + DivRound((requiredGain - g[targetIndex + 1]) * (j - 1 - targetIndex),
                                            lookaheadSamples))
                ELSE g[j]]
        ELSE g

\* releaseCoef * currentGain + (1 - releaseCoef) * 1.0, at most 1.0
Recovered(currentGain, releaseCoef) ==
    IF currentGain = NaNGain THEN NaNGain
    ELSE IF releaseCoef = 0 THEN GQ
    ELSE Min2(GQ, currentGain + ((GQ - releaseCoef) * (GQ - currentGain)) \div GQ)

\* A release loop that copies a NaN of the envelope.
ReleaseStepCopyingNaN(envelopeGain, currentGain, releaseCoef) ==
    IF envelopeGain = NaNGain THEN NaNGain
    ELSE IF currentGain # NaNGain /\ envelopeGain < currentGain THEN envelopeGain
    ELSE Recovered(currentGain, releaseCoef)

\* One iteration of the release loop: gainEnvelope[i] < currentGain is false
\* when either side is NaN.
ReleaseStep(envelopeGain, currentGain, releaseCoef) ==
    IF envelopeGain # NaNGain /\ currentGain # NaNGain /\ envelopeGain < currentGain
    THEN envelopeGain
    ELSE Recovered(currentGain, releaseCoef)

\* currentGain after iteration i of the release loop
RECURSIVE ReleasedGain(_, _, _)
ReleasedGain(g, i, releaseCoef) ==
    ReleaseStep(g[i + 1], IF i = 0 THEN GQ ELSE ReleasedGain(g, i - 1, releaseCoef), releaseCoef)

SmoothRelease(g, releaseCoef) ==
    [i \in 1..Len(g) |-> ReleasedGain(g, i - 1, releaseCoef)]

\* input[i] * gainEnvelope[i]
ApplyGainTo(input, g) ==
    [i \in 1..Len(input) |->
        IF g[i] = NaNGain THEN NaNSample
        ELSE Sign(input[i]) * ((Abs(input[i]) * g[i]) \div GQ)]

LimitChannels(args, g) ==
    [ch \in 1..Len(args.channels) |->
        applySoftKneeOversampled(ApplyGainTo(args.channels[ch], g),
                                 args.ceilingLinear, args.kneeDB)]

MaxLen == 5

SampleValues == {-Q, 0, Q}

ChannelData == UNION {[1..n -> SampleValues] : n \in 4..MaxLen}

\* mono, dual mono, and stereo with a silent right channel
ChannelLayouts(c) == {<< c >>, << c, c >>, << c, [k \in 1..Len(c) |-> 0] >>}

\* Lookahead of 3 ms (144 samples), 50 us (2 samples) and 10 us (less than
\* one sample); release of 100 ms and, with the shortest lookahead, 0.
LimiterInputs ==
    { a \in [channels : UNION {ChannelLayouts(c) : c \in ChannelData},
             sampleRate : {48000},
             ceilingLinear : {891},
             lookaheadUs : {3000, 50, 10},
             releaseMs : {100, 0},
             kneeDB : {3},
             preserveTransients : BOOLEAN] :
        a.releaseMs = 100 \/ a.lookaheadUs = 10 }

InitLimiter ==
    /\ callArgs \in LimiterInputs
    /\ callRet = << >>
    /\ callPc = "ready"
    /\ work = << >>
    /\ NoChain

\* the transient detection block and gainEnvelope.fill(1.0)
AnalyzeTransients ==
    /\ callPc = "ready"
    /\ callPc' = "envelope"
    /\ work' = [transientMap |->
                   IF callArgs.preserveTransients
                   THEN [k \in 1..Len(callArgs.channels[1]) |->
                            CrestRatio(callArgs.channels, k - 1, callArgs.sampleRate)]
                   ELSE << >>,
                gainEnvelope |-> [k \in 1..Len(callArgs.channels[1]) |-> GQ],
                scheduled |-> << >>,
                i |-> 0]
    /\ UNCHANGED << callArgs, callRet, chainVars >>

\* one iteration of the lookahead loop
LookaheadStep ==
    /\ callPc = "envelope"
    /\ work.i < Len(callArgs.channels[1])
    /\ work' = [work EXCEPT !.gainEnvelope = ScheduleReduction(callArgs, work),
                            !.i = work.i + 1]
    /\ UNCHANGED << callArgs, callRet, callPc, chainVars >>

\* the release loop
ReleaseSmoothing ==
    /\ callPc = "envelope"
    /\ work.i = Len(callArgs.channels[1])
    /\ callPc' = "apply"
    /\ work' = [work EXCEPT !.gainEnvelope =
                    SmoothRelease(work.gainEnvelope,
                                  ReleaseCoef(callArgs.sampleRate, callArgs.releaseMs)),
                            !.scheduled = work.gainEnvelope]
    /\ UNCHANGED << callArgs, callRet, chainVars >>

\* the gain and soft-knee loop and the return
ApplyLimiting ==
    /\ callPc = "apply"
    /\ callPc' = "done"
    /\ callRet' = LimitChannels(callArgs, work.gainEnvelope)
    /\ UNCHANGED << callArgs, work, chainVars >>

NextLimiter == AnalyzeTransients \/ LookaheadStep \/ ReleaseSmoothing \/ ApplyLimiting

SpecLimiter == InitLimiter /\ [][NextLimiter]_vars

\* the largest 4x-oversampled true peak of a channel, times 128
RECURSIVE ChannelTruePeak128(_, _)
ChannelTruePeak128(ch, i) ==
    IF i < 0 THEN 0
    ELSE Max2(IF i >= 3 THEN TruePeak128(PrevSamples(ch, i)) ELSE 128 * Abs(ch[i + 1]),
              ChannelTruePeak128(ch, i - 1))

\* C4: after the lookahead limiter has run with a ceiling, no output sample
\* and no inter-sample peak reconstructed at 4x oversampling exceeds the
\* ceiling by more than a small numerical margin (here 0.01, ten times the
\* resolution of the fixed-point samples).
C4_CeilingHolds ==
    callPc = "done" =>
        \A ch \in 1..Len(callRet) :
            /\ \A k \in 1..Len(callRet[ch]) : Abs(callRet[ch][k]) <= callArgs.ceilingLinear + 10
            /\ ChannelTruePeak128(callRet[ch], Len(callRet[ch]) - 1)
                   <= (callArgs.ceilingLinear + 10) * 128

\* C15: for finite input the limiter writes no NaN (and, all arithmetic being
\* finite, no infinity) into an output sample, whatever the lookahead and
\* release, a lookahead of less than one sample included: neither the
\* released gain envelope nor an output sample is NaN.
C15_NoNaNInOutput ==
    /\ callPc \in {"apply", "done"} =>
          \A k \in 1..Len(work.gainEnvelope) : work.gainEnvelope[k] # NaNGain
    /\ callPc = "done" =>
          \A ch \in 1..Len(callRet) : \A k \in 1..Len(callRet[ch]) : callRet[ch][k] # NaNSample

\* a lookahead of zero samples put NaN into the gain envelope, and the limiter
\* has returned
C15_Witness ==
    /\ callPc = "done"
    /\ LookaheadSamples(callArgs.sampleRate, callArgs.lookaheadUs) = 0
    /\ \E k \in 1..Len(work.scheduled) : work.scheduled[k] = NaNGain
    /\ \A ch \in 1..Len(callRet) : \A k \in 1..Len(callRet[ch]) : callRet[ch][k] # NaNSample

\* C22: a step of the lookahead loop never raises the gain scheduled at any
\* sample (a value may only fall, or become NaN when the lookahead is shorter
\* than one sample), and no value of the gain envelope exceeds 1.0, before or
\* after release smoothing.
C22_EnvelopeOnlyFalls ==
    /\ [](callPc \in {"envelope", "apply", "done"} =>
             \A k \in 1..Len(work.gainEnvelope) : work.gainEnvelope[k] <= GQ)
    /\ [][(callPc = "envelope" /\ callPc' = "envelope") =>
             \A k \in 1..Len(work.gainEnvelope) :
                 \/ work'.gainEnvelope[k] = NaNGain
                 \/ work'.gainEnvelope[k] <= work.gainEnvelope[k]]_vars

\* two lookahead windows have overlapped: the scheduled gains fall from 1.0
\* over at least three samples, and the limiter has gone on to apply them
C22_Witness ==
    /\ callPc = "done"
    /\ \E k \in 1..(Len(work.scheduled) - 2) :
          /\ work.scheduled[k] = GQ
          /\ work.scheduled[k + 1] < GQ /\ work.scheduled[k + 1] # NaNGain
          /\ work.scheduled[k + 2] < work.scheduled[k + 1] /\ work.scheduled[k + 2] # NaNGain

\* C23 as stated: after release smoothing the gain applied at a sample is
\* never greater than the gain the lookahead pass scheduled for it.
C23_ReleaseKeepsReduction ==
    callPc \in {"apply", "done"} =>
        \A k \in 1..Len(work.gainEnvelope) :
            work.scheduled[k] # NaNGain => work.gainEnvelope[k] <= work.scheduled[k]

(***************************************************************************)
(* dsp-worker.js applyStereoProcessingToChannels (limiter.js                *)
(* StereoProcessor.process has the same guard).  options is [width,        *)
(* bassMono], width in percent; balance, midGain and sideGain keep their   *)
(* defaults.                                                               *)
(***************************************************************************)
\* A guard that lets every input of two or more channels through.
FewerThanTwoChannels(channels) == Len(channels) < 2

\* channels.length !== 2
NotStereo(channels) == Len(channels) # 2

\* the high-pass at bassFreq = 200 Hz, Q = 0.7071, in units of 1/10000
BassMonoCoeffs(sampleRate) ==
    CASE sampleRate = 48000 ->
             [b0 |-> 9817, b1 |-> -19633, b2 |-> 9817, a1 |-> -19630, a2 |-> 9637]
      [] OTHER ->
             [b0 |-> 9801, b1 |-> -19601, b2 |-> 9801, a1 |-> -19597, a2 |-> 9605]

\* y0 = b0 * x0 + b1 * x1 + b2 * x2 - a1 * y1 - a2 * y2, from zero state
RECURSIVE BiquadRun(_, _, _)
BiquadRun(x, c, ys) ==
    IF Len(ys) = Len(x) THEN ys
    ELSE LET i  == Len(ys) + 1
             x1 == IF i > 1 THEN x[i - 1] ELSE 0
             x2 == IF i > 2 THEN x[i - 2] ELSE 0
             y1 == IF i > 1 THEN ys[i - 1] ELSE 0
             y2 == IF i > 2 THEN ys[i - 2] ELSE 0
         IN  BiquadRun(x, c,
                 Append(ys, DivRound(c.b0 * x[i] + c.b1 * x1 + c.b2 * x2
                                       - c.a1 * y1 - c.a2 * y2, 10000)))

\* M/S encode, bass mono on the side signal, width, decode
StereoPair(left, right, sampleRate, options) ==
    LET mid  == [i \in 1..Len(left) |-> DivRound(left[i] + right[i], 2)]
        side == [i \in 1..Len(left) |-> DivRound(left[i] - right[i], 2)]
        processedSide == IF options.bassMono
                         THEN BiquadRun(side, BassMonoCoeffs(sampleRate), << >>)
                         ELSE side
        sideFinal == [i \in 1..Len(left) |-> DivRound(processedSide[i] * options.width, 100)]
    IN  << [i \in 1..Len(left) |-> mid[i] + sideFinal[i]],
           [i \in 1..Len(left) |-> mid[i] - sideFinal[i]] >>

applyStereoProcessingToChannels(channels, sampleRate, options) ==
    IF NotStereo(channels) THEN channels
    ELSE StereoPair(channels[1], channels[2], sampleRate, options)

MaxStereoLen == 2

\* zero to three channels of equal length
StereoInputs ==
    UNION { [1..n -> [1..len -> SampleValues]] : n \in 0..3, len \in 1..MaxStereoLen }

InitStereo ==
    /\ callArgs \in [channels : StereoInputs, sampleRate : {48000},
                     options : [width : {0, 100, 150}, bassMono : BOOLEAN]]
    /\ callRet = << >>
    /\ callPc = "ready"
    /\ work = << >>
    /\ NoChain

ProcessStereo ==
    /\ callPc = "ready"
    /\ callRet' = << applyStereoProcessingToChannels(callArgs.channels, callArgs.sampleRate,
                                                     callArgs.options) >>
    /\ callPc' = "done"
    /\ UNCHANGED << callArgs, work, chainVars >>

NextStereo == ProcessStereo

SpecStereo == InitStereo /\ [][NextStereo]_vars

\* C13: stereo processing of channel data that is not exactly two channels
\* returns its input unchanged; it does not throw.
C13_NonStereoUnchanged ==
    (callPc = "done" /\ Len(callArgs.channels) # 2) => callRet = << callArgs.channels >>

\* three channels, with width and bass mono asked for, came back as they were
C13_Witness ==
    /\ callPc = "done"
    /\ Len(callArgs.channels) = 3
    /\ callArgs.channels[1] # callArgs.channels[2]
    /\ callArgs.options.bassMono
    /\ callArgs.options.width = 150
    /\ callRet = << callArgs.channels >>

(***************************************************************************)
(* The stages of the render chain (dsp-worker.js, RENDER_FULL_CHAIN).      *)
(*                                                                         *)
(* A buffer carries its samples as data, the fixed-point channels, and     *)
(* ops, the stages applied to data whose arithmetic is not computed here   *)
(* (each is a deterministic function of its input and parameter).  A stage *)
(* that is computed acts on data as long as ops is empty.  Two buffers     *)
(* with equal data and ops hold equal samples; with ops empty, different   *)
(* data are different samples.  numberOfChannels = 0 and sampleRate = 0    *)
(* stand for the value undefined.                                          *)
(***************************************************************************)
WorkerAudioBuffer(numberOfChannels, length, sampleRate, data) ==
    [kind |-> "AudioBuffer", numberOfChannels |-> numberOfChannels,
     length |-> length, sampleRate |-> sampleRate, data |-> data, ops |-> << >>]

Op(stage, param) == [stage |-> stage, param |-> param]

\* a stage whose output is a new buffer of the same shape
Opaque(buffer, op) == [buffer EXCEPT !.ops = Append(@, op)]

\* a stage computed per channel by F
PerChannel(buffer, op, F(_)) ==
    IF buffer.ops = << >>
    THEN [buffer EXCEPT !.data = [c \in 1..Len(@) |-> F(@[c])]]
    ELSE Opaque(buffer, op)

Returned(buffer) == [ok |-> TRUE, buffer |-> buffer]
Thrown(message)  == [ok |-> FALSE, error |-> message]

\* Math.pow(10, inputGainDb / 20), in units of 1/Q
GainLinear(db) ==
    CASE db = 0  -> Q
      [] db = 6  -> 1995
      [] db = -6 -> 501
      [] OTHER   -> Q

\* channelData[i] *= gainLin
applyInputGain(buffer, inputGainDb) ==
    PerChannel(buffer, Op("inputGain", inputGainDb),
               LAMBDA ch : [i \in 1..Len(ch) |->
                               Sign(ch[i]) * ((Abs(ch[i]) * GainLinear(inputGainDb)) \div Q)])

\* every sample of every channel is 0
Silent(buffer) ==
    /\ buffer.kind = "AudioBuffer"
    /\ buffer.ops = << >>
    /\ \A c \in 1..Len(buffer.data) : \A i \in 1..Len(buffer.data[c]) : buffer.data[c][i] = 0

\* a stage that filters its input and multiplies it by gains: its output for
\* an all-zero input is all-zero
Scaling(buffer, op) == IF Silent(buffer) THEN buffer ELSE Opaque(buffer, op)

\* dynamic-processor.js processHybridDynamic: spectral gains, then a dry/wet mix
processHybridDynamic(buffer) == Scaling(buffer, Op("deharsh", 0))

\* constants.js EXCITER_DEFAULTS, in units of 1/Q
EXCITER_DEFAULTS == [drive |-> 500, bias |-> 200, mix |-> 150]

\* exciter.js Exciter.process, out[i] = dry + wet * mixRatio, for a sample
\* that is 0 with a high-passed neighbourhood x, in units of 1/GQ:
\* wet = (tanh(x * drive + bias) + tanh(x * drive + bias)) * 0.5 and
\* mixRatio = mix / 100
ExciterOffset(x) ==
    LET wet == Tanh((x * EXCITER_DEFAULTS.drive) \div Q + EXCITER_DEFAULTS.bias)
    IN  (wet * EXCITER_DEFAULTS.mix) \div 100

\* for an all-zero input the high-passed signal is 0 and every output
\* sample is ExciterOffset(0), which the operation records
applyExciter(buffer) ==
    Opaque(buffer, Op("addAir", IF Silent(buffer) THEN ExciterOffset(0) ELSE 0))

\* multiband-saturation.js: (tanh(drive * (dry + bias)) - tanh(drive * bias)) is 0 for dry = 0
applyTapeWarmth(buffer)         == Scaling(buffer, Op("tapeWarmth", 0))

\* multiband-transient.js: output[i] = sample * smoothedGain per band
applyMultibandTransient(buffer) == Scaling(buffer, Op("addPunch", 0))

\* soft-clipper.js applyOnePoleLP: alpha = dt / (rc + dt) at 18 kHz, in 1/Q
OnePoleAlpha(sampleRate) ==
    CASE sampleRate = 48000 -> 702
      [] sampleRate = 44100 -> 719
      [] OTHER              -> Q

RECURSIVE OnePoleY(_, _, _)
OnePoleY(data, i, alpha) ==
    LET y == IF i = 0 THEN data[1] ELSE OnePoleY(data, i - 1, alpha)
        d == data[i + 1] - y
    IN  y + Sign(d) * ((alpha * Abs(d)) \div Q)

applyOnePoleLP(data, sampleRate) ==
    [i \in 1..Len(data) |-> OnePoleY(data, i - 1, OnePoleAlpha(sampleRate))]

\* soft-clipper.js applyFinalFilters(buffer, { highpass, lowpass })
applyFinalFilters(buffer, highpass, lowpass) ==
    LET afterHP == IF highpass THEN Scaling(buffer, Op("highpass", 30)) ELSE buffer
    IN  IF lowpass
        THEN PerChannel(afterHP, Op("lowpass", 18000),
                        LAMBDA ch : applyOnePoleLP(ch, buffer.sampleRate))
        ELSE afterHP

\* utils.js applyBiquadFilter(samples, coeffs) as applyParametricEQ calls it:
\* samples is the buffer object and coeffs the filter type string, so b0..a2
\* are undefined and every output sample is NaN.  The result is a bare
\* Float32Array of samples.length NaN values.
applyBiquadFilter(samples) ==
    [kind |-> "Float32Array", numberOfChannels |-> 0, length |-> samples.length,
     sampleRate |-> 0, data |-> << >>, ops |-> << >>]

\* the five bands in the order applyParametricEQ applies them
EqBands == << "eqLow", "eqLowMid", "eqMid", "eqHighMid", "eqHigh" >>

\* outBuffer after the first n band blocks
RECURSIVE AfterBands(_, _, _)
AfterBands(buffer, settings, n) ==
    IF n = 0 THEN buffer
    ELSE LET outBuffer == AfterBands(buffer, settings, n - 1)
         IN  IF settings[EqBands[n]] # 0 THEN applyBiquadFilter(outBuffer) ELSE outBuffer

applyParametricEQ(buffer, settings) ==
    LET outBuffer == AfterBands(buffer, settings, Len(EqBands))
    IN  IF settings.cutMud THEN applyBiquadFilter(outBuffer) ELSE outBuffer

\* the options RENDER_FULL_CHAIN passes: threshold in dB, attack and release
\* in ms
GLUE_OPTIONS == [threshold |-> -18, ratio |-> 3, attack |-> 20, release |-> 250]

\* Math.pow(10, threshold / 20) for threshold = -18, in units of 1/100000
GlueThresholdLin == 12589

\* 1 - Math.exp(-1 / (attack * sampleRate)) and the same for release, in
\* units of 1/1000000
GlueCoefs(sampleRate) ==
    CASE sampleRate = 48000 -> [attack |-> 1041, release |-> 83]
      [] OTHER              -> [attack |-> 1133, release |-> 91]

RECURSIVE CbrtIn(_, _, _)
CbrtIn(n, lo, hi) ==
    IF lo >= hi THEN lo
    ELSE LET mid == (lo + hi + 1) \div 2
         IN  IF mid * mid * mid <= n THEN CbrtIn(n, mid, hi) ELSE CbrtIn(n, lo, mid - 1)

\* gain = 10^(-overDB (1 - 1/ratio) / 20) = (thresholdLin / envelope)^(2/3)
\* for ratio 3, in units of 1/Q; 1.0 while the envelope is within the threshold
GlueGain(envelope) ==
    IF envelope > GlueThresholdLin
    THEN LET r == (GlueThresholdLin * Q) \div envelope
         IN  CbrtIn(r * r * Q, 0, Q)
    ELSE Q

\* the envelope follower, envelope in units of 1/100000
GlueEnvelope(envelope, inputAbs, coefs) ==
    IF inputAbs > envelope
    THEN envelope + DivRound((inputAbs - envelope) * coefs.attack, 1000000)
    ELSE envelope + DivRound((inputAbs - envelope) * coefs.release, 1000000)

\* the envelopes after each of the samples lo .. hi, from envelope before lo
RECURSIVE GlueEnvelopes(_, _, _, _, _)
GlueEnvelopes(sidechain, coefs, envelope, lo, hi) ==
    IF lo > hi THEN << >>
    ELSE IF lo = hi THEN << GlueEnvelope(envelope, Abs(sidechain[lo]) * 100, coefs) >>
    ELSE LET mid   == (lo + hi) \div 2
             first == GlueEnvelopes(sidechain, coefs, envelope, lo, mid)
         IN  first \o GlueEnvelopes(sidechain, coefs, first[Len(first)], mid + 1, hi)

\* gainCurve[i] of every sample after those already in gainCurve
GlueGainCurve(sidechain, coefs, envelope, gainCurve) ==
    LET envelopes == GlueEnvelopes(sidechain, coefs, envelope,
                                   Len(gainCurve) + 1, Len(sidechain))
    IN  gainCurve \o [i \in 1..Len(envelopes) |-> GlueGain(envelopes[i])]

\* the linked sidechain: the channels' average, or the only channel
GlueSidechain(data) ==
    IF Len(data) >= 2
    THEN [i \in 1..Len(data[1]) |-> DivRound(data[1][i] + data[2][i], 2)]
    ELSE data[1]

GlueChannels(data, sampleRate) ==
    LET gainCurve == GlueGainCurve(GlueSidechain(data), GlueCoefs(sampleRate), 0, << >>)
    IN  [c \in 1..Len(data) |->
            [i \in 1..Len(data[c]) |-> DivRound(data[c][i] * gainCurve[i], Q)]]

\* channels[0].length throws when the buffer has no channels
applyGlueCompressor(buffer) ==
    IF buffer.numberOfChannels = 0
    THEN Thrown("Cannot read properties of undefined (reading 'length')")
    ELSE IF buffer.ops = << >>
    THEN Returned([buffer EXCEPT !.data = GlueChannels(@, buffer.sampleRate)])
    ELSE Returned(Opaque(buffer, Op("glue", GLUE_OPTIONS.threshold)))

(***************************************************************************)
(* applyGlueCompressor on its own, on buffers long enough for the envelope *)
(* to rise: tones of one level per channel.                                *)
(***************************************************************************)
MaxGlueLen == 160

GlueLengths == {1, 2, 100, MaxGlueLen}

GlueLevels == {-Q, 0, 100, 500, Q}

\* constant, alternating in sign, or silent for the first half
GlueShapes == {"dc", "square", "step"}

Tone(len, level, shape) ==
    [i \in 1..len |->
        CASE shape = "dc"     -> level
          [] shape = "square" -> IF i % 2 = 0 THEN -level ELSE level
          [] OTHER            -> IF 2 * i <= len THEN 0 ELSE level]

InitGlue ==
    /\ \E n \in 1..2, len \in GlueLengths, shape \in GlueShapes :
         \E levels \in [1..n -> GlueLevels] :
            callArgs = [buffer |-> WorkerAudioBuffer(n, len, 48000,
                                      [c \in 1..n |-> Tone(len, levels[c], shape)])]
    /\ callRet = << >>
    /\ callPc = "ready"
    /\ work = << >>
    /\ NoChain

ApplyGlue ==
    /\ callPc = "ready"
    /\ callRet' = << applyGlueCompressor(callArgs.buffer) >>
    /\ callPc' = "done"
    /\ UNCHANGED << callArgs, work, chainVars >>

NextGlue == ApplyGlue

SpecGlue == InitGlue /\ [][NextGlue]_vars

\* C14 as stated: glue compression of a mono buffer returns the input samples
\* and raises no error.
C14_MonoGluePassThrough ==
    (callPc = "done" /\ callArgs.buffer.numberOfChannels = 1) =>
        /\ callRet[1].ok
        /\ callRet[1].buffer.data = callArgs.buffer.data

\* Math.max(0, Math.min(2, stereoWidth / 100)), in percent
ClampedWidth(settings) == Max2(0, Min2(200, settings.stereoWidth))

StereoWanted(buffer, settings) ==
    /\ buffer.numberOfChannels = 2
    /\ settings.centerBass \/ ClampedWidth(settings) # 100

\* applyStereoProcessingToChannels on the two channels, copied back
applyStereoProcessing(buffer, settings) ==
    IF buffer.ops = << >>
    THEN [buffer EXCEPT !.data = applyStereoProcessingToChannels(@, buffer.sampleRate,
                                     [width |-> ClampedWidth(settings),
                                      bassMono |-> settings.centerBass])]
    ELSE Opaque(buffer, Op("stereo", ClampedWidth(settings)))

\* what measureLUFS reads of a chain buffer; no buffer of the chain holds a
\* whole measurement block
LufsView(buffer) ==
    [sampleRate |-> buffer.sampleRate, length |-> buffer.length,
     numberOfChannels |-> buffer.numberOfChannels, blockMS |-> << >>]

\* normalizeToLUFS(buffer, targetLufs, 0, { skipLimiter: true })
normalizeGainOnly(buffer, targetLufs) ==
    LET currentLUFS == measureLUFS(LufsView(buffer), JSNum(targetLufs))
    IN  IF currentLUFS.t # "number" THEN buffer
        ELSE PerChannel(buffer, Op("normalize", targetLufs),
                        LAMBDA ch : [i \in 1..Len(ch) |->
                            Sign(ch[i]) * ((Abs(ch[i]) * GainLinear(targetLufs - currentLUFS.v)) \div Q)])

\* settings.truePeakCeiling || -1
CeilingOf(settings) == IF settings.truePeakCeiling # 0 THEN settings.truePeakCeiling ELSE -1

(***************************************************************************)
(* soft-clipper.js applyMasteringSoftClip with the chain's lookaheadMs =   *)
(* 0.5, releaseMs = 10 and drive = 1.5.  Gains are in units of 1/GQ.       *)
(***************************************************************************)
\* dbToLinear(db), in units of 1/Q
DbToLinear(db) ==
    CASE db = -3 -> 708
      [] db = -2 -> 794
      [] db = -1 -> 891
      [] db = 0  -> Q
      [] db = 2  -> 1259
      [] OTHER   -> Q

SetMin(S) == CHOOSE m \in S : \A y \in S : m <= y

\* targetLevel / abs for a sample above thresholdLin
SoftClipRequiredGain(abs, thresholdLin, ceilingLin) ==
    LET excess      == abs - thresholdLin
        range       == ceilingLin - thresholdLin
        normalized  == (excess * Q) \div Max2(range, 1)
        saturated   == Tanh(Min2((normalized * 3) \div 2, 3 * Q))
        targetLevel == thresholdLin + DivRound(saturated * range, Q)
    IN  (targetLevel * GQ) \div abs

\* 1.0 + (requiredGain - 1.0) * t with t = (j - startIdx) / Math.max(1, i - startIdx)
InterpolatedGain(requiredGain, j, startIdx, i) ==
    GQ + DivRound((requiredGain - GQ) * (j - startIdx), Max2(1, i - startIdx))

\* gainEnvelope after the first pass: the least interpolated gain of any
\* lookahead window that covers the sample
SoftClipEnvelope(data, lookaheadSamples, thresholdLin, ceilingLin) ==
    [j \in 1..Len(data[1]) |->
        SetMin({GQ} \cup
               { InterpolatedGain(
                     SoftClipRequiredGain(Abs(data[x[1]][x[2] + 1]), thresholdLin, ceilingLin),
                     j - 1, Max2(0, x[2] - lookaheadSamples), x[2]) :
                 x \in { y \in (1..Len(data)) \X (0..(Len(data[1]) - 1)) :
                           /\ Abs(data[y[1]][y[2] + 1]) > thresholdLin
                           /\ Max2(0, y[2] - lookaheadSamples) <= j - 1
                           /\ j - 1 <= y[2] } })]

\* input[i] || 0 and gainEnvelope[i] || 1 (i is 0-based)
SampleOrZero(input, i) == IF i >= 0 /\ i < Len(input) THEN input[i + 1] ELSE 0
GainOrOne(g, i) == IF i >= 0 /\ i < Len(g) /\ g[i + 1] # 0 THEN g[i + 1] ELSE GQ

ScaledBy(sample, gain) == Sign(sample) * ((Abs(sample) * gain) \div GQ)

\* the saturate closure
Saturate(val, ceilingLin) ==
    IF Abs(val) > ceilingLin
    THEN LET excess    == ((Abs(val) - ceilingLin) * Q) \div ceilingLin
             reduction == Q - Tanh(Min2(2 * excess, 3 * Q)) \div 10
         IN  Sign(val) * Min2((Abs(val) * reduction) \div Q, ceilingLin)
    ELSE val

\* output[i] = (satA + satB) * 0.5, sampleB being interpolateCatmullRom at
\* t = 0.5: (-y0 + 9 y1 + 9 y2 - y3) / 16
SoftClipSampleAt(input, g, i, ceilingLin) ==
    LET s1 == ScaledBy(SampleOrZero(input, i - 1), GainOrOne(g, i - 1))
        s2 == ScaledBy(input[i + 1], g[i + 1])
        s3 == ScaledBy(SampleOrZero(input, i + 1), GainOrOne(g, i + 1))
        s4 == ScaledBy(SampleOrZero(input, i + 2), GainOrOne(g, i + 2))
        sampleB == DivRound(9 * s2 + 9 * s3 - s1 - s4, 16)
    IN  DivRound(Saturate(s2, ceilingLin) + Saturate(sampleB, ceilingLin), 2)

MasteringSoftClip(data, sampleRate, ceiling) ==
    LET ceilingLin   == DbToLinear(ceiling)
        thresholdLin == DbToLinear(ceiling + 3)
        g == SmoothRelease(SoftClipEnvelope(data, LookaheadSamples(sampleRate, 500),
                                            thresholdLin, ceilingLin),
                           ReleaseCoef(sampleRate, 10))
    IN  [ch \in 1..Len(data) |->
            [i \in 1..Len(data[ch]) |-> SoftClipSampleAt(data[ch], g, i - 1, ceilingLin)]]

\* soft-clipper.js applyMasteringSoftClip: the output buffer is built from
\* buffer.numberOfChannels, buffer.length and buffer.sampleRate
applyMasteringSoftClip(buffer, ceiling) ==
    IF buffer.kind = "AudioBuffer"
    THEN IF buffer.ops = << >> /\ buffer.numberOfChannels > 0
         THEN [buffer EXCEPT !.data = MasteringSoftClip(@, buffer.sampleRate, ceiling)]
         ELSE Scaling(buffer, Op("softClip", ceiling))
    ELSE WorkerAudioBuffer(0, buffer.length, 0, << >>)

(***************************************************************************)
(* applyMasteringSoftClip on its own.                                      *)
(***************************************************************************)
MaxClipLen == 3

ClipSampleValues == {-Q, 0, 500, 1500}

ClipChannelData == UNION {[1..n -> ClipSampleValues] : n \in 1..MaxClipLen}

InitSoftClip ==
    /\ \E c \in ClipChannelData, ceiling \in {-1, -3} :
         \E channels \in ChannelLayouts(c) :
            callArgs = [buffer  |-> WorkerAudioBuffer(Len(channels), Len(c), 48000, channels),
                        options |-> [ceiling |-> ceiling]]
    /\ callRet = << >>
    /\ callPc = "ready"
    /\ work = << >>
    /\ NoChain

ApplySoftClip ==
    /\ callPc = "ready"
    /\ callRet' = << applyMasteringSoftClip(callArgs.buffer, callArgs.options.ceiling) >>
    /\ callPc' = "done"
    /\ UNCHANGED << callArgs, work, chainVars >>

NextSoftClip == ApplySoftClip

SpecSoftClip == InitSoftClip /\ [][NextSoftClip]_vars

\* C16 as stated: the mastering soft clipper leaves every sample whose
\* magnitude is below the threshold (ceiling + 3 dB) unchanged, here to within
\* 0.002.
C16_BelowThresholdUnchanged ==
    callPc = "done" =>
        \A ch \in 1..Len(callArgs.buffer.data) : \A i \in 1..Len(callArgs.buffer.data[ch]) :
            Abs(callArgs.buffer.data[ch][i]) < DbToLinear(callArgs.options.ceiling + 3) =>
                Abs(callRet[1].data[ch][i] - callArgs.buffer.data[ch][i]) <= 2

\* applyLookaheadLimiterToChannels on the buffer's channels, copied back
applyFinalLimiter(buffer, ceiling) ==
    IF buffer.numberOfChannels = 0
    THEN Thrown("Cannot read properties of undefined (reading 'length')")
    ELSE Returned(Scaling(buffer, Op("limiter", ceiling)))

(***************************************************************************)
(* The render system: DSPWorkerInterface on the main thread, the worker's  *)
(* onmessage handler, and the two message queues between them.  A session *)
(* renders one audio buffer with one settings object, at most once in each *)
(* mode.                                                                   *)
(***************************************************************************)
Modes == {"preview", "export"}

Switches ==
    {"inputGain", "deharsh", "addAir", "tapeWarmth", "addPunch", "cleanLowEnd",
     "eqLow", "cutMud", "glueCompression", "stereoWidth", "centerBass",
     "normalizeLoudness", "truePeakLimit"}

\* the settings object with the switches in on away from their neutral value
SettingsWith(on) ==
    [inputGain         |-> IF "inputGain" \in on THEN 6 ELSE 0,
     deharsh           |-> "deharsh" \in on,
     addAir            |-> "addAir" \in on,
     tapeWarmth        |-> "tapeWarmth" \in on,
     addPunch          |-> "addPunch" \in on,
     cleanLowEnd       |-> "cleanLowEnd" \in on,
     eqLow             |-> IF "eqLow" \in on THEN 3 ELSE 0,
     eqLowMid          |-> 0,
     eqMid             |-> 0,
     eqHighMid         |-> 0,
     eqHigh            |-> 0,
     cutMud            |-> "cutMud" \in on,
     glueCompression   |-> "glueCompression" \in on,
     stereoWidth       |-> IF "stereoWidth" \in on THEN 150 ELSE 100,
     centerBass        |-> "centerBass" \in on,
     normalizeLoudness |-> "normalizeLoudness" \in on,
     targetLufs        |-> -14,
     truePeakLimit     |-> "truePeakLimit" \in on,
     truePeakCeiling   |-> -1]

\* every stage on, flat EQ
FullChain == Switches \ {"eqLow", "cutMud"}

\* all-off and FullChain, and every settings object one switch away from them
SettingsFamily ==
    { SettingsWith(on) : on \in { {}, FullChain }
                                \cup { {sw} : sw \in Switches }
                                \cup { FullChain \ {sw} : sw \in Switches }
                                \cup { FullChain \cup {sw} : sw \in Switches } }

MaxFrames == 2

FrameValues == {0, 500}

\* mono and dual-mono buffers of MaxFrames samples at 48 kHz
InputBuffers ==
    { [numberOfChannels |-> n, length |-> MaxFrames, sampleRate |-> 48000,
       data |-> [c \in 1..n |-> ch]] : n \in {1, 2}, ch \in [1..MaxFrames -> FrameValues] }

NoCall == [id |-> -1, status |-> "none", value |-> << >>, error |-> ""]

Idle == [pc |-> "idle", id |-> -1, data |-> << >>, buffer |-> << >>, log |-> << >>]

Init ==
    /\ callArgs \in [audioBuffer : InputBuffers, settings : SettingsFamily]
    /\ callRet = << >>
    /\ callPc = "ready"
    /\ work = << >>
    /\ dspWorker = [worker |-> FALSE, isReady |-> FALSE, readyTimer |-> FALSE,
                    nextId |-> 0, pending |-> {}]
    /\ calls = [m \in Modes |-> NoCall]
    /\ toWorker = << >>
    /\ toMain = << >>
    /\ wk = Idle
    /\ posted = << >>
    /\ thrown = {}

(***************************************************************************)
(* Main thread: DSPWorkerInterface (presets/eq.js).                        *)
(***************************************************************************)
\* init(): create the worker and start the 100 ms readiness timer
InterfaceInit ==
    /\ ~dspWorker.worker
    /\ dspWorker' = [dspWorker EXCEPT !.worker = TRUE, !.readyTimer = TRUE]
    /\ UNCHANGED << callArgs, funVars, calls, toWorker, toMain, wk, posted, thrown >>

\* the setTimeout callback of init()
ReadyTimer ==
    /\ dspWorker.readyTimer
    /\ dspWorker' = [dspWorker EXCEPT !.isReady = TRUE, !.readyTimer = FALSE]
    /\ UNCHANGED << callArgs, funVars, calls, toWorker, toMain, wk, posted, thrown >>

\* _extractChannelData
ExtractChannelData(audioBuffer) ==
    [channels |-> audioBuffer.data, sampleRate |-> audioBuffer.sampleRate]

Rejected(call, message) == [call EXCEPT !.status = "rejected", !.error = message]

Resolved(call, value) == [call EXCEPT !.status = "resolved", !.value = << value >>]

\* renderFullChain(audioBuffer, settings, mode) up to its await, with _send
RenderFullChain(mode) ==
    /\ calls[mode].status = "none"
    /\ IF ~dspWorker.worker
       THEN /\ calls' = [calls EXCEPT ![mode] =
                            Rejected(@, "Worker not initialized. Call init() first.")]
            /\ UNCHANGED << dspWorker, toWorker >>
       ELSE LET id == dspWorker.nextId
                extracted == ExtractChannelData(callArgs.audioBuffer)
            IN  /\ dspWorker' = [dspWorker EXCEPT !.nextId = id + 1,
                                                  !.pending = @ \cup {id}]
                /\ toWorker' = Append(toWorker,
                       [type |-> "RENDER_FULL_CHAIN", id |-> id,
                        data |-> [channels |-> extracted.channels,
                                  sampleRate |-> extracted.sampleRate,
                                  settings |-> callArgs.settings,
                                  mode |-> mode]])
                /\ calls' = [calls EXCEPT ![mode] = [@ EXCEPT !.id = id, !.status = "pending"]]
    /\ UNCHANGED << callArgs, funVars, toMain, wk, posted, thrown >>

\* _createAudioBuffer(channels, sampleRate): channels[0].length throws on []
CreateAudioBuffer(channels, sampleRate) ==
    IF channels.count = 0
    THEN Thrown("Cannot read properties of undefined (reading 'length')")
    ELSE Returned([numberOfChannels |-> channels.count, length |-> channels.length,
                   sampleRate |-> sampleRate, data |-> channels.data,
                   ops |-> channels.ops])

\* renderFullChain after its await: the promise of _send has settled
Continue(call, message) ==
    IF message.success
    THEN LET processedBuffer ==
                 CreateAudioBuffer(message.result[1].channels, callArgs.audioBuffer.sampleRate)
         IN  IF processedBuffer.ok
             THEN Resolved(call, [audioBuffer |-> processedBuffer.buffer,
                                  lufs |-> message.result[1].lufs,
                                  measuredLufs |-> message.result[1].measuredLufs])
             ELSE Rejected(call, processedBuffer.error)
    ELSE Rejected(call, IF message.error # "" THEN message.error ELSE "Unknown worker error")

\* worker.onmessage: _handleMessage, and the continuation of the call it settles
HandleMessage ==
    /\ toMain # << >>
    /\ LET message == Head(toMain)
       IN  /\ toMain' = Tail(toMain)
           /\ IF message.type = "PROGRESS" \/ message.id \notin dspWorker.pending
              THEN UNCHANGED << dspWorker, calls >>
              ELSE /\ dspWorker' = [dspWorker EXCEPT !.pending = @ \ {message.id}]
                   /\ calls' = [m \in Modes |->
                                   IF calls[m].status = "pending" /\ calls[m].id = message.id
                                   THEN Continue(calls[m], message)
                                   ELSE calls[m]]
    /\ UNCHANGED << callArgs, funVars, toWorker, wk, posted, thrown >>

(***************************************************************************)
(* Worker: self.onmessage for RENDER_FULL_CHAIN, one step per stage.  A    *)
(* stage whose condition is false takes no step.                           *)
(***************************************************************************)
\* An order in which the preview return comes after the final filters.
PositionsLateReturn ==
    << "inputGain", "deharsh", "addAir", "tapeWarmth", "addPunch", "finalFilters",
       "previewReturn", "eq", "glue", "stereo", "normalize", "softClip", "limiter",
       "exportReturn" >>

Positions ==
    << "inputGain", "deharsh", "addAir", "tapeWarmth", "addPunch", "previewReturn",
       "finalFilters", "eq", "glue", "stereo", "normalize", "softClip", "limiter",
       "exportReturn" >>

\* Conditions under which the transient stage runs in export mode only.
EntersByMode(pos, data, buffer) ==
    CASE pos = "inputGain"     -> data.settings.inputGain # 0
      [] pos = "deharsh"       -> data.settings.deharsh
      [] pos = "addAir"        -> data.settings.addAir
      [] pos = "tapeWarmth"    -> data.settings.tapeWarmth
      [] pos = "addPunch"      -> data.settings.addPunch /\ data.mode = "export"
      [] pos = "previewReturn" -> data.mode = "preview"
      [] pos = "finalFilters"  -> TRUE
      [] pos = "eq"            -> TRUE
      [] pos = "glue"          -> data.settings.glueCompression
      [] pos = "stereo"        -> StereoWanted(buffer, data.settings)
      [] pos = "normalize"     -> data.settings.normalizeLoudness /\ data.settings.targetLufs # 0
      [] pos = "softClip"      -> data.settings.truePeakLimit
      [] pos = "limiter"       -> data.settings.truePeakLimit
      [] pos = "exportReturn"  -> TRUE

\* the condition under which the handler enters the code at a position
Enters(pos, data, buffer) ==
    CASE pos = "inputGain"     -> data.settings.inputGain # 0
      [] pos = "deharsh"       -> data.settings.deharsh
      [] pos = "addAir"        -> data.settings.addAir
      [] pos = "tapeWarmth"    -> data.settings.tapeWarmth
      [] pos = "addPunch"      -> data.settings.addPunch
      [] pos = "previewReturn" -> data.mode = "preview"
      [] pos = "finalFilters"  -> TRUE
      [] pos = "eq"            -> TRUE
      [] pos = "glue"          -> data.settings.glueCompression
      [] pos = "stereo"        -> StereoWanted(buffer, data.settings)
      [] pos = "normalize"     -> data.settings.normalizeLoudness /\ data.settings.targetLufs # 0
      [] pos = "softClip"      -> data.settings.truePeakLimit
      [] pos = "limiter"       -> data.settings.truePeakLimit
      [] pos = "exportReturn"  -> TRUE

RECURSIVE PositionFrom(_, _, _)
PositionFrom(k, data, buffer) ==
    IF k >= Len(Positions) \/ Enters(Positions[k], data, buffer)
    THEN Positions[k]
    ELSE PositionFrom(k + 1, data, buffer)

IndexOf(pos) == CHOOSE k \in 1..Len(Positions) : Positions[k] = pos

\* A successor that passes over the position that follows.
PositionAfterSkipping(pos, data, buffer) ==
    PositionFrom(Min2(IndexOf(pos) + 2, Len(Positions)), data, buffer)

PositionAfter(pos, data, buffer) == PositionFrom(IndexOf(pos) + 1, data, buffer)

\* sendProgress(id, progress, status); progress in percent
Progress(id, percent) == [id |-> id, type |-> "PROGRESS", progress |-> percent]

ProgressAll(id, percents) == [k \in 1..Len(percents) |-> Progress(id, percents[k])]

SuccessResponse(id, result) ==
    [id |-> id, type |-> "RESPONSE", success |-> TRUE, result |-> << result >>, error |-> ""]

\* the catch block: { id, success: false, error: error.message }
FailureResponse(id, error) ==
    [id |-> id, type |-> "RESPONSE", success |-> FALSE, result |-> << >>, error |-> error]

\* the channel arrays extracted from the buffer for the response
ChannelsOf(buffer) ==
    [count  |-> buffer.numberOfChannels,
     length |-> IF buffer.numberOfChannels = 0 THEN 0 ELSE buffer.length,
     data   |-> buffer.data,
     ops    |-> buffer.ops]

ResultOf(buffer) ==
    [channels     |-> ChannelsOf(buffer),
     lufs         |-> measureLUFS(LufsView(buffer), Undefined),
     measuredLufs |-> measureLUFS(LufsView(buffer), Undefined)]

\* A catch block that answers with the buffer as far as it was processed.
FailPartial(progress, error) ==
    LET response == SuccessResponse(wk.id, ResultOf(wk.buffer))
    IN  /\ toMain' = toMain \o ProgressAll(wk.id, progress) \o << response >>
        /\ posted' = Append(posted, response)
        /\ thrown' = thrown \cup {wk.id}
        /\ wk' = Idle

\* the handler leaves through the catch block
Fail(progress, error) ==
    LET response == FailureResponse(wk.id, error)
    IN  /\ toMain' = toMain \o ProgressAll(wk.id, progress) \o << response >>
        /\ posted' = Append(posted, response)
        /\ thrown' = thrown \cup {wk.id}
        /\ wk' = Idle

\* the handler posts its result and returns
Succeed(progress) ==
    LET response == SuccessResponse(wk.id, ResultOf(wk.buffer))
    IN  /\ toMain' = toMain \o ProgressAll(wk.id, progress) \o << response >>
        /\ posted' = Append(posted, response)
        /\ wk' = Idle
        /\ UNCHANGED thrown

\* a stage at position pos, announced by progress, with its outcome
Stage(pos, progress, outcome) ==
    /\ wk.pc = pos
    /\ IF outcome.ok
       THEN /\ wk' = [wk EXCEPT !.buffer = outcome.buffer,
                                !.log = Append(@, pos),
                                !.pc = PositionAfter(pos, wk.data, outcome.buffer)]
            /\ toMain' = toMain \o ProgressAll(wk.id, progress)
            /\ UNCHANGED << posted, thrown >>
       ELSE Fail(progress, outcome.error)
    /\ UNCHANGED << callArgs, funVars, dspWorker, calls, toWorker >>

\* the handler up to the first stage: create the WorkerAudioBuffer
Receive ==
    /\ wk.pc = "idle"
    /\ toWorker # << >>
    /\ LET message == Head(toWorker)
           channels == message.data.channels
       IN  /\ toWorker' = Tail(toWorker)
           /\ IF Len(channels) = 0
              THEN /\ toMain' = toMain \o << Progress(message.id, 5),
                         FailureResponse(message.id,
                             "Cannot read properties of undefined (reading 'length')") >>
                   /\ posted' = Append(posted, FailureResponse(message.id,
                             "Cannot read properties of undefined (reading 'length')"))
                   /\ thrown' = thrown \cup {message.id}
                   /\ wk' = Idle
              ELSE LET buffer == WorkerAudioBuffer(Len(channels), Len(channels[1]),
                                                   message.data.sampleRate, channels)
                   IN  /\ wk' = [pc |-> PositionFrom(1, message.data, buffer),
                                 id |-> message.id, data |-> message.data,
                                 buffer |-> buffer, log |-> << >>]
                       /\ toMain' = Append(toMain, Progress(message.id, 5))
                       /\ UNCHANGED << posted, thrown >>
    /\ UNCHANGED << callArgs, funVars, dspWorker, calls >>

ApplyInputGain ==
    Stage("inputGain", << 10 >>, Returned(applyInputGain(wk.buffer, wk.data.settings.inputGain)))

Deharsh == Stage("deharsh", << 15 >>, Returned(processHybridDynamic(wk.buffer)))

AddAir == Stage("addAir", << 30 >>, Returned(applyExciter(wk.buffer)))

TapeWarmth == Stage("tapeWarmth", << 45 >>, Returned(applyTapeWarmth(wk.buffer)))

AddPunch == Stage("addPunch", << 55 >>, Returned(applyMultibandTransient(wk.buffer)))

ReturnPreview ==
    /\ wk.pc = "previewReturn"
    /\ Succeed(<< 100 >>)
    /\ UNCHANGED << callArgs, funVars, dspWorker, calls, toWorker >>

FinalFilters ==
    Stage("finalFilters", << 60 >>,
          Returned(applyFinalFilters(wk.buffer, wk.data.settings.cleanLowEnd, TRUE)))

ParametricEQ == Stage("eq", << 65 >>, Returned(applyParametricEQ(wk.buffer, wk.data.settings)))

GlueCompressor == Stage("glue", << 70 >>, applyGlueCompressor(wk.buffer))

StereoProcessing ==
    Stage("stereo", << 72 >>, Returned(applyStereoProcessing(wk.buffer, wk.data.settings)))

NormalizeLoudness ==
    Stage("normalize", << 75 >>,
          Returned(normalizeGainOnly(wk.buffer, wk.data.settings.targetLufs)))

SoftClipper ==
    Stage("softClip", << 85 >>,
          Returned(applyMasteringSoftClip(wk.buffer, CeilingOf(wk.data.settings))))

\* the progress reports of the handler and of applyLookaheadLimiterToChannels
LimiterProgress(buffer) ==
    IF buffer.numberOfChannels = 0 THEN << 95 >>
    ELSE << 95, 10, 30, 60 >>
           \o [ch \in 1..buffer.numberOfChannels |-> 60 + (30 * ch) \div buffer.numberOfChannels]

FinalLimiter ==
    Stage("limiter", LimiterProgress(wk.buffer),
          applyFinalLimiter(wk.buffer, CeilingOf(wk.data.settings)))

ReturnExport ==
    /\ wk.pc = "exportReturn"
    /\ Succeed(<< 100 >>)
    /\ UNCHANGED << callArgs, funVars, dspWorker, calls, toWorker >>

Next ==
    \/ InterfaceInit
    \/ ReadyTimer
    \/ \E mode \in Modes : RenderFullChain(mode)
    \/ HandleMessage
    \/ Receive
    \/ ApplyInputGain
    \/ Deharsh
    \/ AddAir
    \/ TapeWarmth
    \/ AddPunch
    \/ ReturnPreview
    \/ FinalFilters
    \/ ParametricEQ
    \/ GlueCompressor
    \/ StereoProcessing
    \/ NormalizeLoudness
    \/ SoftClipper
    \/ FinalLimiter
    \/ ReturnExport

Spec == Init /\ [][Next]_vars

(***************************************************************************)
(* Properties of the render system.                                        *)
(***************************************************************************)
\* the stages in the order the specification fixes
StageOrder ==
    << "inputGain", "deharsh", "addAir", "tapeWarmth", "addPunch", "finalFilters",
       "eq", "glue", "stereo", "normalize", "softClip", "limiter" >>

Rank(stage) == CHOOSE k \in 1..Len(StageOrder) : StageOrder[k] = stage

Logged(log) == { log[k] : k \in 1..Len(log) }

\* whether the settings, and for the stereo stage the buffer, enable a stage
StageEnabled(stage, settings, buffer) ==
    CASE stage = "inputGain"    -> settings.inputGain # 0
      [] stage = "deharsh"      -> settings.deharsh
      [] stage = "addAir"       -> settings.addAir
      [] stage = "tapeWarmth"   -> settings.tapeWarmth
      [] stage = "addPunch"     -> settings.addPunch
      [] stage = "finalFilters" -> TRUE
      [] stage = "eq"           -> TRUE
      [] stage = "glue"         -> settings.glueCompression
      [] stage = "stereo"       -> /\ buffer.numberOfChannels = 2
                                   /\ settings.centerBass \/ settings.stereoWidth # 100
      [] stage = "normalize"    -> settings.normalizeLoudness
      [] stage = "softClip"     -> settings.truePeakLimit
      [] stage = "limiter"      -> settings.truePeakLimit

\* C1: in export mode the stages run in the fixed order: the stages run so
\* far are in ascending order, every stage that has run is enabled, no stage
\* has run before an enabled stage that precedes it, and when the handler
\* reaches its return every enabled stage has run.
C1_ExportStageOrder ==
    (wk.pc # "idle" /\ wk.data.mode = "export") =>
        /\ \A i, j \in 1..Len(wk.log) : i < j => Rank(wk.log[i]) < Rank(wk.log[j])
        /\ \A k \in 1..Len(wk.log) :
              /\ StageEnabled(wk.log[k], wk.data.settings, wk.buffer)
              /\ \A e \in 1..Len(StageOrder) :
                    (e < Rank(wk.log[k])
                       /\ StageEnabled(StageOrder[e], wk.data.settings, wk.buffer))
                    => StageOrder[e] \in Logged(wk.log)
        /\ wk.pc = "exportReturn" =>
              \A e \in 1..Len(StageOrder) :
                  StageEnabled(StageOrder[e], wk.data.settings, wk.buffer)
                  => StageOrder[e] \in Logged(wk.log)

\* an export render of a stereo buffer that has run all twelve stages
C1_Witness ==
    /\ wk.pc = "exportReturn"
    /\ wk.data.mode = "export"
    /\ wk.log = StageOrder

\* the buffer after the stages shared by both modes
HeavyFx(audioBuffer, settings) ==
    LET b0 == WorkerAudioBuffer(audioBuffer.numberOfChannels, audioBuffer.length,
                                audioBuffer.sampleRate, audioBuffer.data)
        b1 == IF settings.inputGain # 0 THEN applyInputGain(b0, settings.inputGain) ELSE b0
        b2 == IF settings.deharsh THEN processHybridDynamic(b1) ELSE b1
        b3 == IF settings.addAir THEN applyExciter(b2) ELSE b2
        b4 == IF settings.tapeWarmth THEN applyTapeWarmth(b3) ELSE b3
    IN  IF settings.addPunch THEN applyMultibandTransient(b4) ELSE b4

HeavyStages == {"inputGain", "deharsh", "addAir", "tapeWarmth", "addPunch"}

ResponsesTo(id) == { k \in 1..Len(posted) : posted[k].id = id }

\* C3: a preview render runs none of the stages after transient shaping, and
\* its response carries the buffer as the shared stages left it together
\* with the loudness measured on that buffer.
C3_PreviewStopsAfterTransient ==
    /\ (wk.pc # "idle" /\ wk.data.mode = "preview") => Logged(wk.log) \subseteq HeavyStages
    /\ \A k \in ResponsesTo(calls["preview"].id) :
          LET heavy == HeavyFx(callArgs.audioBuffer, callArgs.settings)
          IN  /\ posted[k].success
              /\ posted[k].result[1].channels = ChannelsOf(heavy)
              /\ posted[k].result[1].lufs = measureLUFS(LufsView(heavy), Undefined)

\* a preview render answered after at least two shared stages
C3_Witness ==
    /\ calls["preview"].status = "resolved"
    /\ Len(calls["preview"].value[1].audioBuffer.ops) >= 2

\* the buffer a resolved call holds, as the worker would rebuild it
AsWorkerBuffer(audioBuffer) ==
    [kind |-> "AudioBuffer", numberOfChannels |-> audioBuffer.numberOfChannels,
     length |-> audioBuffer.length, sampleRate |-> audioBuffer.sampleRate,
     data |-> audioBuffer.data, ops |-> audioBuffer.ops]

\* a conditional stage of the handler applied to the outcome so far
Then(outcome, enabled, F(_)) ==
    IF outcome.ok /\ enabled THEN F(outcome.buffer) ELSE outcome

\* the statements after the preview return, applied to a buffer
ExportTail(buffer, settings) ==
    LET filtered  == applyFinalFilters(buffer, settings.cleanLowEnd, TRUE)
        equalized == Returned(applyParametricEQ(filtered, settings))
        glued     == Then(equalized, settings.glueCompression, applyGlueCompressor)
        widened   == Then(glued, glued.ok /\ StereoWanted(glued.buffer, settings),
                          LAMBDA b : Returned(applyStereoProcessing(b, settings)))
        levelled  == Then(widened, settings.normalizeLoudness /\ settings.targetLufs # 0,
                          LAMBDA b : Returned(normalizeGainOnly(b, settings.targetLufs)))
        clipped   == Then(levelled, settings.truePeakLimit,
                          LAMBDA b : Returned(applyMasteringSoftClip(b, CeilingOf(settings))))
    IN  Then(clipped, settings.truePeakLimit,
             LAMBDA b : applyFinalLimiter(b, CeilingOf(settings)))

BothResolved == \A m \in Modes : calls[m].status = "resolved"

\* C2 as stated: for the same input and settings the preview render and the
\* export render return identical samples (compared where both buffers hold
\* computed samples).
C2_PreviewEqualsExport ==
    (/\ BothResolved
     /\ calls["preview"].value[1].audioBuffer.ops = << >>
     /\ calls["export"].value[1].audioBuffer.ops = << >>)
    => calls["preview"].value[1].audioBuffer.data = calls["export"].value[1].audioBuffer.data

\* C2: for the same input and settings the export render answers with what
\* the export-only stages (final filters, EQ, glue compression, stereo
\* processing, normalization, soft clipper, limiter) make of the preview
\* render's output: the two modes share the stages up to transient shaping,
\* and the export result is the preview result carried through the rest.
C2_ExportContinuesPreview ==
    calls["preview"].status = "resolved" =>
        \A k \in ResponsesTo(calls["export"].id) :
            LET tail == ExportTail(AsWorkerBuffer(calls["preview"].value[1].audioBuffer),
                                   callArgs.settings)
            IN  posted[k] = IF tail.ok
                            THEN SuccessResponse(posted[k].id, ResultOf(tail.buffer))
                            ELSE FailureResponse(posted[k].id, tail.error)

\* both renders answered, the preview after a shared stage, with different samples
C2_Witness ==
    /\ BothResolved
    /\ callArgs.settings.inputGain # 0
    /\ calls["preview"].value[1].audioBuffer.ops = << >>
    /\ calls["export"].value[1].audioBuffer.ops = << >>
    /\ calls["preview"].value[1].audioBuffer.data # calls["export"].value[1].audioBuffer.data

\* C6: a render in which a stage throws fails atomically: exactly one
\* response is posted for it, that response is a failure carrying an error
\* message and no result, and the caller's promise is never resolved, holds
\* no buffer, and is rejected with that error.
C6_ThrowFailsAtomically ==
    \A id \in thrown :
        /\ Cardinality(ResponsesTo(id)) = 1
        /\ \A k \in ResponsesTo(id) :
              /\ ~posted[k].success
              /\ posted[k].error # ""
              /\ posted[k].result = << >>
              /\ \A m \in Modes :
                    calls[m].id = id =>
                        /\ calls[m].status \in {"pending", "rejected"}
                        /\ calls[m].value = << >>
                        /\ calls[m].status = "rejected" => calls[m].error = posted[k].error

\* a render whose stage threw has been rejected at the caller
C6_Witness ==
    \E m \in Modes : calls[m].status = "rejected" /\ calls[m].id \in thrown

\* C7 as stated: every successful render answers with as many channels, and
\* as many samples in each, as its input has.
C7_RenderKeepsShape ==
    \A k \in 1..Len(posted) :
        posted[k].success =>
            /\ posted[k].result[1].channels.count = callArgs.audioBuffer.numberOfChannels
            /\ posted[k].result[1].channels.length = callArgs.audioBuffer.length

SilentInput ==
    \A c \in 1..Len(callArgs.audioBuffer.data) :
        \A i \in 1..Len(callArgs.audioBuffer.data[c]) : callArgs.audioBuffer.data[c][i] = 0

\* C12 as stated: an all-zero input passes through every stage unchanged:
\* whichever stages are enabled, the buffer is all-zero after each of them,
\* and so is the buffer every successful render answers with.
C12_SilenceStaysSilent ==
    SilentInput =>
        /\ wk.pc # "idle" => Silent(wk.buffer)
        /\ \A k \in 1..Len(posted) :
              posted[k].success =>
                  /\ posted[k].result[1].channels.ops = << >>
                  /\ \A c \in 1..Len(posted[k].result[1].channels.data) :
                        \A i \in 1..Len(posted[k].result[1].channels.data[c]) :
                            posted[k].result[1].channels.data[c][i] = 0

(***************************************************************************)
(* DSPWorkerInterface (presets/eq.js) and the worker's message handler     *)
(* (dsp-worker.js self.onmessage) as a protocol: several init() calls,     *)
(* several requests of any type in flight, terminate(), and a worker whose *)
(* script loads or fails to load.  callRet holds the promises of the       *)
(* init() calls, calls the promises of the requests.                       *)
(***************************************************************************)
MaxCalls == 2

MaxInits == 2

\* the cases of the switch in self.onmessage
KnownTypes ==
    {"MEASURE_LUFS", "FIND_TRUE_PEAK", "NORMALIZE", "APPLY_LIMITER", "SPECTRAL_DENOISE",
     "APPLY_SATURATION", "APPLY_DYNAMIC_LEVELING", "APPLY_MULTIBAND",
     "APPLY_TRANSIENT_SHAPING", "APPLY_STEREO_PROCESSING", "RENDER_FULL_CHAIN"}

\* the types the requests are drawn from: a case that reports no progress of
\* its own, one that does, and a type the switch does not know
RequestTypes == {"MEASURE_LUFS", "RENDER_FULL_CHAIN", "RESAMPLE"}

\* the cases that call sendProgress before their work is done
ReportsProgress(type) ==
    type \notin {"MEASURE_LUFS", "FIND_TRUE_PEAK"}

\* { id, type: 'PROGRESS', progress, status }
ProgressMessage(id) == [id |-> id, type |-> "PROGRESS", success |-> FALSE, error |-> ""]

\* { id, success: true, result } and { id, success: false, error }
ResponseMessage(id, success, error) ==
    [id |-> id, type |-> "RESPONSE", success |-> success, error |-> error]

NoMessage == [id |-> -1, type |-> "none", success |-> FALSE, error |-> ""]

NoRequest == [id |-> -1, status |-> "none", by |-> NoMessage, sentWith |-> {}, settles |-> 0]

\* handled holds the ids of the requests whose handler has run to its end
NoWorker ==
    [pc |-> "none", owner |-> 0, id |-> -1, type |-> "", throws |-> FALSE, handled |-> {}]

InitInterface ==
    /\ callArgs = << >>
    /\ callRet = [k \in 1..MaxInits |-> "none"]
    /\ callPc = "ready"
    /\ work = << >>
    /\ dspWorker = [worker |-> FALSE, isReady |-> FALSE, timers |-> {},
                    nextId |-> 0, pending |-> {}]
    /\ calls = [c \in 1..MaxCalls |-> NoRequest]
    /\ toWorker = << >>
    /\ toMain = << >>
    /\ wk = NoWorker
    /\ posted = << >>
    /\ thrown = {}

\* init(), the k-th call: return at once when a worker exists; otherwise
\* create the worker and start the 100 ms timer, or reject when the Worker
\* constructor throws
InitCall(k) ==
    /\ callRet[k] = "none"
    /\ k > 1 => callRet[k - 1] # "none"
    /\ IF dspWorker.worker
       THEN /\ callRet' = [callRet EXCEPT ![k] = "resolved"]
            /\ UNCHANGED << dspWorker, wk >>
       ELSE \/ /\ dspWorker' = [dspWorker EXCEPT !.worker = TRUE, !.timers = @ \cup {k}]
               /\ wk' = [NoWorker EXCEPT !.pc = "loading", !.owner = k,
                                         !.handled = wk.handled]
               /\ callRet' = [callRet EXCEPT ![k] = "pending"]
            \/ /\ callRet' = [callRet EXCEPT ![k] = "rejected"]
               /\ UNCHANGED << dspWorker, wk >>
    /\ UNCHANGED << callArgs, callPc, work, calls, toWorker, toMain, posted, thrown >>

\* the setTimeout callback of the k-th init(): isReady = true; resolve()
InitTimer(k) ==
    /\ k \in dspWorker.timers
    /\ dspWorker' = [dspWorker EXCEPT !.isReady = TRUE, !.timers = @ \ {k}]
    /\ callRet' = [callRet EXCEPT ![k] = IF @ = "pending" THEN "resolved" ELSE @]
    /\ UNCHANGED << callArgs, callPc, work, calls, toWorker, toMain, wk, posted, thrown >>

SettledBy(call, status, message) ==
    [call EXCEPT !.status = status, !.by = message, !.settles = @ + 1]

\* _send(type, data), the c-th request; postMessage throws when the data
\* cannot be cloned
Send(c, type, throws, cloneable) ==
    /\ calls[c].status = "none"
    /\ c > 1 => calls[c - 1].status # "none"
    /\ IF ~dspWorker.worker
       THEN /\ calls' = [calls EXCEPT ![c] = SettledBy(@, "rejected", NoMessage)]
            /\ UNCHANGED << dspWorker, toWorker >>
       ELSE LET id == dspWorker.nextId
            IN  IF cloneable
                THEN /\ dspWorker' = [dspWorker EXCEPT !.nextId = id + 1,
                                                       !.pending = @ \cup {id}]
                     /\ toWorker' = Append(toWorker,
                                           [type |-> type, id |-> id, throws |-> throws])
                     /\ calls' = [calls EXCEPT ![c] =
                                     [@ EXCEPT !.id = id, !.status = "pending",
                                               !.sentWith = dspWorker.pending \cup {id}]]
                ELSE /\ dspWorker' = [dspWorker EXCEPT !.nextId = id + 1]
                     /\ calls' = [calls EXCEPT ![c] =
                                     SettledBy([@ EXCEPT !.id = id], "rejected", NoMessage)]
                     /\ UNCHANGED toWorker
    /\ UNCHANGED << callArgs, callRet, callPc, work, toMain, wk, posted, thrown >>

\* A handler that looks up the pending entry before it looks at the type.
CompletesAnyMessage(message, pending) == message.id \in pending

\* _handleMessage settles a promise: the message is not a PROGRESS message
\* and this.pending has its id
Completes(message, pending) == message.type # "PROGRESS" /\ message.id \in pending

\* worker.onmessage
Deliver ==
    /\ toMain # << >>
    /\ LET message == Head(toMain)
       IN  /\ toMain' = Tail(toMain)
           /\ IF Completes(message, dspWorker.pending)
              THEN /\ dspWorker' = [dspWorker EXCEPT !.pending = @ \ {message.id}]
                   /\ calls' = [c \in 1..MaxCalls |->
                                   IF calls[c].id = message.id /\ calls[c].status # "none"
                                   THEN SettledBy(calls[c],
                                                  IF message.success THEN "resolved"
                                                  ELSE "rejected",
                                                  message)
                                   ELSE calls[c]]
              ELSE UNCHANGED << dspWorker, calls >>
    /\ UNCHANGED << callArgs, callRet, callPc, work, toWorker, wk, posted, thrown >>

\* terminate(): the worker is stopped with whatever it was doing, every
\* pending promise is rejected
Terminate ==
    /\ dspWorker.worker
    /\ dspWorker' = [dspWorker EXCEPT !.worker = FALSE, !.isReady = FALSE, !.pending = {}]
    /\ calls' = [c \in 1..MaxCalls |->
                    IF calls[c].id \in dspWorker.pending /\ calls[c].status # "none"
                    THEN SettledBy(calls[c], "rejected", NoMessage)
                    ELSE calls[c]]
    /\ wk' = [NoWorker EXCEPT !.handled = wk.handled]
    /\ toWorker' = << >>
    /\ toMain' = << >>
    /\ UNCHANGED << callArgs, callRet, callPc, work, posted, thrown >>

\* the worker's script has been loaded and run: self.onmessage is set
WorkerLoaded ==
    /\ wk.pc = "loading"
    /\ wk' = [wk EXCEPT !.pc = "idle"]
    /\ UNCHANGED << callArgs, callRet, callPc, work, dspWorker, calls, toWorker, toMain,
                    posted, thrown >>

\* the worker's script fails: worker.onerror rejects the promise of the
\* init() that created the worker, and nothing else
WorkerError ==
    /\ wk.pc = "loading"
    /\ wk' = [wk EXCEPT !.pc = "failed"]
    /\ callRet' = [callRet EXCEPT ![wk.owner] = IF @ = "pending" THEN "rejected" ELSE @]
    /\ UNCHANGED << callArgs, callPc, work, dspWorker, calls, toWorker, toMain, posted, thrown >>

\* self.onmessage up to the first progress report
OnMessage ==
    /\ wk.pc = "idle"
    /\ toWorker # << >>
    /\ LET request == Head(toWorker)
       IN  /\ wk' = [wk EXCEPT !.pc = "busy", !.id = request.id, !.type = request.type,
                               !.throws = request.throws]
           /\ toMain' = IF request.type \in KnownTypes /\ ReportsProgress(request.type)
                        THEN Append(toMain, ProgressMessage(request.id))
                        ELSE toMain
    /\ toWorker' = Tail(toWorker)
    /\ UNCHANGED << callArgs, callRet, callPc, work, dspWorker, calls, posted, thrown >>

\* A switch whose default case breaks without a result being posted.
HandlerPostsIgnoringUnknown(id, type, throws) ==
    IF type \notin KnownTypes THEN << >>
    ELSE IF throws THEN << ResponseMessage(id, FALSE, "thrown") >>
    ELSE << ProgressMessage(id), ResponseMessage(id, TRUE, "") >>

\* what the rest of the handler posts: the default case throws, a throw
\* reaches the catch block, and a case that completes reports progress 1.0
\* and posts its result
HandlerPosts(id, type, throws) ==
    IF type \notin KnownTypes THEN << ResponseMessage(id, FALSE, "Unknown message type") >>
    ELSE IF throws THEN << ResponseMessage(id, FALSE, "thrown") >>
    ELSE << ProgressMessage(id), ResponseMessage(id, TRUE, "") >>

OnMessageEnd ==
    /\ wk.pc = "busy"
    /\ LET msgs == HandlerPosts(wk.id, wk.type, wk.throws)
       IN  /\ toMain' = toMain \o msgs
           /\ posted' = posted \o SelectSeq(msgs, LAMBDA m : m.type = "RESPONSE")
    /\ wk' = [wk EXCEPT !.pc = "idle", !.handled = @ \cup {wk.id}]
    /\ UNCHANGED << callArgs, callRet, callPc, work, dspWorker, calls, toWorker, thrown >>

NextInterface ==
    \/ \E k \in 1..MaxInits : InitCall(k)
    \/ \E k \in 1..MaxInits : InitTimer(k)
    \/ \E c \in 1..MaxCalls, type \in RequestTypes, cloneable \in BOOLEAN :
          \E throws \in (IF type \in KnownTypes THEN BOOLEAN ELSE {TRUE}) :
              Send(c, type, throws, cloneable)
    \/ Deliver
    \/ Terminate
    \/ WorkerLoaded
    \/ WorkerError
    \/ OnMessage
    \/ OnMessageEnd

SpecInterface == InitInterface /\ [][NextInterface]_vars

\* The timer fires, messages are delivered, and the worker's script either
\* loads or fails and then handles the messages it has: none of these waits
\* for the caller.  init(), requests and terminate() are up to the caller.
SpecInterfaceFair ==
    /\ SpecInterface
    /\ WF_vars(\E k \in 1..MaxInits : InitTimer(k))
    /\ WF_vars(Deliver)
    /\ WF_vars(WorkerLoaded \/ WorkerError)
    /\ WF_vars(OnMessage)
    /\ WF_vars(OnMessageEnd)

\* the terminal responses posted with an id
ResponsesWith(id) == {k \in 1..Len(posted) : posted[k].id = id}

\* C17: for every request the worker receives, whatever its type and whether
\* or not its processing throws, the handler posts exactly one terminal
\* response with the request's id: none while the request is being handled,
\* one when the handler has run, never two.
C17_ExactlyOneResponse ==
    \A id \in 0..(MaxCalls - 1) :
        /\ id \in wk.handled => Cardinality(ResponsesWith(id)) = 1
        /\ id \notin wk.handled => ResponsesWith(id) = {}

\* a request of an unknown type and a request of a known type have both been
\* handled
C17_Witness ==
    /\ wk.handled = {0, 1}
    /\ \E a, b \in 1..Len(posted) :
          /\ posted[a].error = "Unknown message type"
          /\ posted[b].success

\* C18: with several requests in flight, a message from the worker settles
\* only the promise whose request id it carries, and only if it is a terminal
\* response; resolve or reject is called at most once for each promise.
C18_SettledByOwnResponse ==
    \A c \in 1..MaxCalls :
        /\ calls[c].settles <= 1
        /\ calls[c].by.type # "none" =>
              /\ calls[c].by.type = "RESPONSE"
              /\ calls[c].by.id = calls[c].id
              /\ calls[c].status = (IF calls[c].by.success THEN "resolved" ELSE "rejected")

\* the second request was sent while the first was pending, and each has been
\* settled by its own response, one resolved and one rejected
C18_Witness ==
    /\ MaxCalls >= 2
    /\ Cardinality(calls[2].sentWith) = 2
    /\ calls[1].by.type = "RESPONSE" /\ calls[1].by.id = calls[1].id
    /\ calls[2].by.type = "RESPONSE" /\ calls[2].by.id = calls[2].id
    /\ calls[1].status # calls[2].status

\* C19 as stated: every request promise eventually settles.
C19_EveryRequestSettles ==
    \A c \in 1..MaxCalls :
        (calls[c].status = "pending") ~> (calls[c].status \in {"resolved", "rejected"})

\* C20 as stated: a promise returned by init() resolves only when a worker
\* exists and isReady is true.
C20_InitResolvesReady ==
    [][\A k \in 1..MaxInits :
          (callRet[k] # "resolved" /\ callRet'[k] = "resolved") =>
              (dspWorker'.worker /\ dspWorker'.isReady)]_vars

(***************************************************************************)
(* applyParametricEQ on its own, as the EQ stage of an export render calls *)
(* it: a buffer and the five band gains and the cut-mud flag.              *)
(***************************************************************************)
BandGains == {0, 3}

EqSettings ==
    [eqLow : BandGains, eqLowMid : BandGains, eqMid : BandGains, eqHighMid : BandGains,
     eqHigh : BandGains, cutMud : BOOLEAN]

InitEQ ==
    /\ \E b \in InputBuffers, settings \in EqSettings :
          callArgs = [buffer   |-> WorkerAudioBuffer(b.numberOfChannels, b.length,
                                                     b.sampleRate, b.data),
                      settings |-> settings]
    /\ callRet = << >>
    /\ callPc = "ready"
    /\ work = << >>
    /\ NoChain

ApplyEQ ==
    /\ callPc = "ready"
    /\ callRet' = << applyParametricEQ(callArgs.buffer, callArgs.settings) >>
    /\ callPc' = "done"
    /\ UNCHANGED << callArgs, work, chainVars >>

NextEQ == ApplyEQ

SpecEQ == InitEQ /\ [][NextEQ]_vars

\* C21 as stated: for every combination of the five band gains and the
\* cut-mud flag the EQ stage returns a buffer with the channel count, length
\* and sample rate of its input.
C21_EqKeepsBuffer ==
    callPc = "done" =>
        /\ callRet[1].kind = "AudioBuffer"
        /\ callRet[1].numberOfChannels = callArgs.buffer.numberOfChannels
        /\ callRet[1].length = callArgs.buffer.length
        /\ callRet[1].sampleRate = callArgs.buffer.sampleRate

(***************************************************************************)
(* dynamic-processor.js GainComputer.  Levels and gains are in units of    *)
(* 1/100 dB.                                                               *)
(***************************************************************************)
\* setParams(thresholdDb, ratio, kneeDb)
setParams(thresholdDb, ratio, kneeDb) ==
    [thresholdDb |-> thresholdDb, ratio |-> ratio, kneeDb |-> kneeDb,
     kneeStart |-> thresholdDb - kneeDb \div 2,
     kneeEnd   |-> thresholdDb + kneeDb \div 2]

\* computeGainDb(inputDb); kneeProgress is in units of 1/100
computeGainDb(this, inputDb) ==
    IF inputDb <= this.kneeStart THEN 0
    ELSE IF inputDb >= this.kneeEnd
    THEN LET excess     == inputDb - this.thresholdDb
             compressed == DivRound(excess, this.ratio)
         IN  compressed - excess
    ELSE LET kneeProgress == ((inputDb - this.kneeStart) * 100) \div this.kneeDb
         IN  DivRound(-((inputDb - this.thresholdDb) * (this.ratio - 1)
                          * kneeProgress * kneeProgress),
                      this.ratio * 10000)

MaxDepthDb == 30

\* input levels from 0 dB down to -MaxDepthDb in steps of 1 dB
InputLevels == {-100 * k : k \in 0..MaxDepthDb}

InitGainComputer ==
    /\ callArgs \in [thresholdDb : {-2000, -1000}, ratio : {1, 2, 4},
                     kneeDb : {200, 600, 1000}, inputDb : InputLevels]
    /\ callRet = << >>
    /\ callPc = "ready"
    /\ work = << >>
    /\ NoChain

ComputeGain ==
    /\ callPc = "ready"
    /\ callRet' = << computeGainDb(setParams(callArgs.thresholdDb, callArgs.ratio,
                                             callArgs.kneeDb),
                                   callArgs.inputDb) >>
    /\ callPc' = "done"
    /\ UNCHANGED << callArgs, work, chainVars >>

NextGainComputer == ComputeGain

SpecGainComputer == InitGainComputer /\ [][NextGainComputer]_vars

\* C24 as stated: for every input level, threshold, ratio >= 1 and knee
\* width > 0, computeGainDb returns a gain change that is negative or zero.
C24_NeverBoosts ==
    callPc = "done" => callRet[1] <= 0


(***************************************************************************)
(* Steps 9 and 10 of RENDER_FULL_CHAIN on their own: the soft clipper and  *)
(* the final limiter, for every truePeakCeiling of the settings schema     *)
(* (whole dB from -3 to 0).                                                *)
(***************************************************************************)
CeilingRange == {-3, -2, -1, 0}

InitCeiling ==
    /\ \E b \in InputBuffers, limit \in BOOLEAN, c \in CeilingRange :
          callArgs = [buffer   |-> WorkerAudioBuffer(b.numberOfChannels, b.length,
                                                     b.sampleRate, b.data),
                      settings |-> [truePeakLimit |-> limit, truePeakCeiling |-> c]]
    /\ callRet = << >>
    /\ callPc = "softClip"
    /\ work = [softClip |-> << >>, limiter |-> << >>]
    /\ NoChain

\* 9. Soft Clipper; work.softClip is the ceiling handed to applyMasteringSoftClip
SoftClipStage ==
    /\ callPc = "softClip"
    /\ IF callArgs.settings.truePeakLimit
       THEN LET ceiling == CeilingOf(callArgs.settings)
            IN  /\ callRet' = << applyMasteringSoftClip(callArgs.buffer, ceiling) >>
                /\ work' = [work EXCEPT !.softClip = << ceiling >>]
       ELSE /\ callRet' = << callArgs.buffer >>
            /\ UNCHANGED work
    /\ callPc' = "limiter"
    /\ UNCHANGED << callArgs, chainVars >>

\* 10. Final True Peak Limiter; work.limiter is the ceiling whose linear value
\* is handed to applyLookaheadLimiterToChannels
FinalLimiterStage ==
    /\ callPc = "limiter"
    /\ IF callArgs.settings.truePeakLimit
       THEN LET ceiling == CeilingOf(callArgs.settings)
            IN  /\ callRet' = << applyFinalLimiter(callRet[1], ceiling) >>
                /\ work' = [work EXCEPT !.limiter = << ceiling >>]
       ELSE /\ callRet' = << Returned(callRet[1]) >>
            /\ UNCHANGED work
    /\ callPc' = "done"
    /\ UNCHANGED << callArgs, chainVars >>

NextCeiling == SoftClipStage \/ FinalLimiterStage

SpecCeiling == InitCeiling /\ [][NextCeiling]_vars

\* C25 as stated: with truePeakLimit enabled, the soft clipper and the final
\* limiter both run with the configured truePeakCeiling, for every value
\* from -3 to 0 dB, 0 dB included.
C25_ConfiguredCeilingUsed ==
    (callPc = "done" /\ callArgs.settings.truePeakLimit) =>
        /\ work.softClip = << callArgs.settings.truePeakCeiling >>
        /\ work.limiter = << callArgs.settings.truePeakCeiling >>


(***************************************************************************)
(* findTruePeak (dynamic-processor.js) and findTruePeakFromChannels        *)
(* (dsp-worker.js): the same loop over every channel.  The result is       *)
(* maxPeak times 128; the code returns 20 * log10(maxPeak), or -Infinity   *)
(* when maxPeak is 0, which is increasing in maxPeak, so levels are        *)
(* compared before the conversion to dBTP.                                 *)
(***************************************************************************)
\* maxPeak over the iterations 0..i of one channel; only i >= 3 measures
RECURSIVE ChannelMaxPeak128(_, _)
ChannelMaxPeak128(channelData, i) ==
    IF i < 0 THEN 0
    ELSE Max2(IF i >= 3 THEN TruePeak128(PrevSamples(channelData, i)) ELSE 0,
              ChannelMaxPeak128(channelData, i - 1))

RECURSIVE findTruePeakFromChannels(_)
findTruePeakFromChannels(channels) ==
    IF channels = << >> THEN 0
    ELSE Max2(ChannelMaxPeak128(Head(channels), Len(Head(channels)) - 1),
              findTruePeakFromChannels(Tail(channels)))

findTruePeak(audioBuffer) == findTruePeakFromChannels(audioBuffer.data)

MaxPeakLen == 5

PeakSampleValues == {-Q, 0, 500, Q}

PeakChannelData == UNION {[1..n -> PeakSampleValues] : n \in 1..MaxPeakLen}

InitTruePeak ==
    /\ \E c \in PeakChannelData, second \in BOOLEAN :
          callArgs = IF second THEN << c, [k \in 1..Len(c) |-> 0] >> ELSE << c >>
    /\ callRet = << >>
    /\ callPc = "ready"
    /\ work = << >>
    /\ NoChain

FindTruePeak ==
    /\ callPc = "ready"
    /\ callRet' = << findTruePeak(WorkerAudioBuffer(Len(callArgs), Len(callArgs[1]),
                                                    48000, callArgs)) >>
    /\ callPc' = "done"
    /\ UNCHANGED << callArgs, work, chainVars >>

NextTruePeak == FindTruePeak

SpecTruePeak == InitTruePeak /\ [][NextTruePeak]_vars

\* C26 as stated: the true peak reported for a buffer is never lower than the
\* largest absolute sample value of the buffer, wherever that sample is
\* (first, last or interior) and whatever the length of the buffer.
C26_TruePeakCoversSamples ==
    callPc = "done" =>
        \A ch \in 1..Len(callArgs) : \A k \in 1..Len(callArgs[ch]) :
            callRet[1] >= 128 * Abs(callArgs[ch][k])


(***************************************************************************)
(* exciter.js Exciter.process on its own.  Samples, drive, bias and mix    *)
(* are in units of 1/Q; output samples are in units of 1/GQ so that the    *)
(* wet term survives the default mix.                                      *)
(***************************************************************************)
\* calcHighPassCoeffs(48000, 6000): omega = tan(pi / 8), in units of 1/10000
ExciterHpfCoeffs == [b0 |-> 5690, b1 |-> -11381, b2 |-> 5690, a1 |-> -9428, a2 |-> 3333]

\* Math.tanh for either sign
TanhOdd(x) == Sign(x) * Tanh(Abs(x))

\* filtered[i] || 0, i counted from 1
FilteredAt(filtered, i) == IF i >= 1 /\ i <= Len(filtered) THEN filtered[i] ELSE 0

\* the saturated signal of sample i: tanh(p2 * drive + bias), averaged with
\* the same at the half-sample point when oversampling
ExciterWet(this, filtered, i) ==
    LET p1   == FilteredAt(filtered, i - 1)
        p2   == FilteredAt(filtered, i)
        p3   == FilteredAt(filtered, i + 1)
        p4   == FilteredAt(filtered, i + 2)
        wetA == TanhOdd((p2 * this.drive) \div Q + this.bias)
        sB   == DivRound(Interp128(p1, p2, p3, p4, 2), 128)
        wetB == TanhOdd((sB * this.drive) \div Q + this.bias)
    IN  IF this.oversample THEN (wetA + wetB) \div 2 ELSE wetA

\* two passes of the high-pass (hpfSlope 12)
ExciterFiltered(input) ==
    BiquadRun(BiquadRun(input, ExciterHpfCoeffs, << >>), ExciterHpfCoeffs, << >>)

\* out[i] = dry + wet * mixRatio with mixRatio = this.mix / 100
ExciterChannel(this, input) ==
    LET filtered == ExciterFiltered(input)
    IN  [i \in 1..Len(input) |->
            input[i] * Q + (ExciterWet(this, filtered, i) * this.mix) \div 100]

\* new Exciter(options): the defaults, with mix and oversample as given
Exciter(mix, oversample) ==
    [drive |-> EXCITER_DEFAULTS.drive, bias |-> EXCITER_DEFAULTS.bias,
     mix |-> mix, oversample |-> oversample]

MaxExciterLen == 3

ExciterChannelData == UNION {[1..n -> {-Q, 0, Q}] : n \in 1..MaxExciterLen}

\* the default mix 0.15, and 15 as a caller who reads mix as a percentage passes
ExciterMixes == {EXCITER_DEFAULTS.mix, 15 * Q}

InitExciter ==
    /\ callArgs \in [input : ExciterChannelData, mix : ExciterMixes, oversample : BOOLEAN]
    /\ callRet = << >>
    /\ callPc = "ready"
    /\ work = << >>
    /\ NoChain

\* work keeps the saturated signal the output was mixed from
ExciterProcess ==
    /\ callPc = "ready"
    /\ LET this == Exciter(callArgs.mix, callArgs.oversample)
       IN  /\ callRet' = ExciterChannel(this, callArgs.input)
           /\ work' = [i \in 1..Len(callArgs.input) |->
                          ExciterWet(this, ExciterFiltered(callArgs.input), i)]
    /\ callPc' = "done"
    /\ UNCHANGED << callArgs, chainVars >>

NextExciter == ExciterProcess

SpecExciter == InitExciter /\ [][NextExciter]_vars

\* C27 as stated: every output sample of the exciter is dry + saturated * mix,
\* with mix the configured wet ratio (0.15 by default) used as given.
C27_MixUsedAsGiven ==
    callPc = "done" =>
        \A i \in 1..Len(callRet) :
            callRet[i] = callArgs.input[i] * Q + work[i] * callArgs.mix


(***************************************************************************)
(* dynamic-processor.js HybridDynamicProcessor._processChannel with the    *)
(* FFTProcessor of fft.js, for options.fftSize = 4 and options.hopSize = 1 *)
(* (the default overlap factor fftSize / hopSize = 4), where the transform *)
(* is exact in integers.  Input samples, window and gains are in units of  *)
(* 1/Q; output samples are in units of 1/GQ.                               *)
(***************************************************************************)
HybridFftSize == 4
HybridHopSize == 1

\* utils.js createHannWindow(4): 0.5 * (1 - cos(2 * pi * i / 3))
createHannWindow == << 0, 750, 750, 0 >>

\* FFTProcessor.forward: window, then the 4-point transform; << re, im >> per bin
forward(block) ==
    LET x == [i \in 1..HybridFftSize |-> (block[i] * createHannWindow[i]) \div Q]
    IN  << << x[1] + x[2] + x[3] + x[4], 0 >>,
           << x[1] - x[3], x[4] - x[2] >>,
           << x[1] - x[2] + x[3] - x[4], 0 >>,
           << x[1] - x[3], x[2] - x[4] >> >>

\* the gain loop over bins 0 .. numBins - 1 with the mirror of bin 1 into bin 3
ApplyBinGains(spectrum, gains) ==
    LET s0 == << (spectrum[1][1] * gains[1]) \div Q, (spectrum[1][2] * gains[1]) \div Q >>
        s1 == << (spectrum[2][1] * gains[2]) \div Q, (spectrum[2][2] * gains[2]) \div Q >>
    IN  << s0, s1, spectrum[3], << s1[1], -s1[2] >> >>

\* FFTProcessor.inverse: real part of the inverse transform, times the window
inverse(spectrum) ==
    LET re == << spectrum[1][1] + spectrum[2][1] + spectrum[3][1] + spectrum[4][1],
                 spectrum[1][1] - spectrum[2][2] - spectrum[3][1] + spectrum[4][2],
                 spectrum[1][1] - spectrum[2][1] + spectrum[3][1] - spectrum[4][1],
                 spectrum[1][1] + spectrum[2][2] - spectrum[3][1] - spectrum[4][2] >>
    IN  [i \in 1..HybridFftSize |-> DivRound(re[i], HybridFftSize) * createHannWindow[i]]

\* Math.floor((input.length - fftSize) / hopSize)
HybridNumFrames(input) == (Len(input) - HybridFftSize) \div HybridHopSize

\* output after the frames 0 .. frame - 1 have been overlap-added
RECURSIVE OverlapAdd(_, _, _)
OverlapAdd(input, gains, frame) ==
    IF frame <= 0 THEN [i \in 1..Len(input) |-> 0]
    ELSE LET output    == OverlapAdd(input, gains, frame - 1)
             pos       == (frame - 1) * HybridHopSize
             block     == [i \in 1..HybridFftSize |-> input[pos + i]]
             processed == inverse(ApplyBinGains(forward(block), gains))
         IN  [i \in 1..Len(input) |->
                 IF i - pos >= 1 /\ i - pos <= HybridFftSize
                 THEN output[i] + processed[i - pos]
                 ELSE output[i]]

\* _processChannel: the frames, then output[i] /= fftSize / hopSize
ProcessChannelWith(input, gains) ==
    LET output == OverlapAdd(input, gains, HybridNumFrames(input))
    IN  [i \in 1..Len(input) |-> DivRound(output[i], HybridFftSize \div HybridHopSize)]

MaxHybridLen == 6

HybridChannelData == UNION {[1..n -> {-Q, 0, Q}] : n \in 1..MaxHybridLen}

\* what _computeBinGains returns for the two bins: unity, or a cut of bin 1
HybridBinGains == {<< Q, Q >>, << Q, 500 >>}

InitHybrid ==
    /\ callArgs \in [input : HybridChannelData, gains : HybridBinGains]
    /\ callRet = << >>
    /\ callPc = "ready"
    /\ work = << >>
    /\ NoChain

ProcessChannel ==
    /\ callPc = "ready"
    /\ callRet' = ProcessChannelWith(callArgs.input, callArgs.gains)
    /\ callPc' = "done"
    /\ UNCHANGED << callArgs, work, chainVars >>

NextHybrid == ProcessChannel

SpecHybrid == InitHybrid /\ [][NextHybrid]_vars

\* C28 as stated: with every per-bin gain equal to 1, overlap-add followed by
\* the division by N / hop returns the input at unity gain at every sample
\* index, the first and last samples and buffers shorter than one frame
\* included.
C28_UnityReconstruction ==
    (callPc = "done" /\ callArgs.gains = << Q, Q >>) =>
        \A i \in 1..Len(callRet) : callRet[i] = callArgs.input[i] * Q


(***************************************************************************)
(* web/ui/transport.js: playerState, audioNodes.source and the events of   *)
(* the page.  work is playerState together with the audio sources created  *)
(* so far: state[s] and handler[s] are source s's playback state and its   *)
(* onended handler, ended is the set of sources whose ended event is       *)
(* queued, pos is context.currentTime - startTime and shown is the time on *)
(* the scrubber.  restarted records that the current source was started by *)
(* playAudio while audio was playing.                                      *)
(***************************************************************************)
MaxSources == 3

\* playbackBuffer.duration, in position steps
Duration == 2

Sources == 1..MaxSources

InitTransport ==
    /\ callArgs = << >>
    /\ callRet = << >>
    /\ callPc = "transport"
    /\ work = [isPlaying |-> FALSE, isSeeking |-> FALSE, seekUpdateInterval |-> "none",
               seekTimeout |-> FALSE, pauseTime |-> 0, source |-> 0, created |-> 0,
               state |-> [s \in Sources |-> "unused"],
               handler |-> [s \in Sources |-> "none"],
               ended |-> {}, pos |-> 0, shown |-> 0, restarted |-> FALSE]
    /\ NoChain

\* source.stop() of a playing source queues its ended event; on a source
\* that never started it throws, which stopAudio and seekTo catch
StoppedSource(w) ==
    IF w.source # 0 /\ w.state[w.source] = "playing"
    THEN [w EXCEPT !.state[w.source] = "stopped", !.ended = @ \cup {w.source}]
    ELSE w

stopAudio(w) ==
    [StoppedSource(w) EXCEPT !.source = 0, !.isPlaying = FALSE,
                             !.seekUpdateInterval = "none"]

\* context.createBufferSource() assigned to audioNodes.source
WithNewSource(w) ==
    [w EXCEPT !.created = @ + 1, !.source = w.created + 1,
              !.state[w.created + 1] = "created"]

\* playAudio; throws says that connectFn(audioNodes.source) throws
playAudio(w, throws) ==
    LET stopped == WithNewSource(stopAudio(w))
    IN  IF throws THEN [stopped EXCEPT !.restarted = FALSE]
        ELSE [stopped EXCEPT !.handler[stopped.source] = "play",
                             !.state[stopped.source] = "playing",
                             !.pos = w.pauseTime,
                             !.isPlaying = TRUE,
                             !.seekUpdateInterval = "play",
                             !.restarted = w.isPlaying /\ w.source # 0
                                              /\ w.state[w.source] = "playing"]

PlayAudio ==
    /\ callPc = "transport"
    /\ work.created < MaxSources
    /\ \E throws \in BOOLEAN : work' = playAudio(work, throws)
    /\ UNCHANGED << callArgs, callRet, callPc, chainVars >>

PauseAudio ==
    /\ callPc = "transport"
    /\ work.isPlaying
    /\ work' = [stopAudio([work EXCEPT !.pauseTime = work.pos]) EXCEPT !.restarted = FALSE]
    /\ UNCHANGED << callArgs, callRet, callPc, chainVars >>

resetTransport(w) == [w EXCEPT !.pauseTime = 0, !.shown = 0]

StopAndReset ==
    /\ callPc = "transport"
    /\ work.source # 0 \/ work.isPlaying \/ work.pauseTime # 0 \/ work.shown # 0
    /\ work' = [resetTransport(stopAudio(work)) EXCEPT !.restarted = FALSE]
    /\ UNCHANGED << callArgs, callRet, callPc, chainVars >>

\* seekTo up to the point where the lock is released; throws says that
\* connectFn(audioNodes.source) throws, which leaves the function
seekTo(w, time, throws) ==
    LET locked == [w EXCEPT !.isSeeking = TRUE, !.pauseTime = time]
    IN  IF w.isPlaying
        THEN LET old     == IF w.source # 0
                            THEN [StoppedSource([locked EXCEPT !.handler[w.source] = "none"])
                                      EXCEPT !.source = 0]
                            ELSE locked
                 cleared == WithNewSource([old EXCEPT !.seekUpdateInterval = "none",
                                                      !.restarted = FALSE])
             IN  IF throws THEN cleared
                 ELSE [cleared EXCEPT !.handler[cleared.source] = "seek",
                                      !.state[cleared.source] = "playing",
                                      !.pos = time,
                                      !.seekUpdateInterval = "seek",
                                      !.seekTimeout = TRUE]
        ELSE [locked EXCEPT !.shown = time, !.seekTimeout = TRUE]

SeekTo ==
    /\ callPc = "transport"
    /\ ~work.isSeeking
    /\ \E time \in 0..(Duration - 1), throws \in BOOLEAN :
          /\ work.isPlaying => work.created < MaxSources
          /\ throws => work.isPlaying
          /\ work' = seekTo(work, time, throws)
    /\ UNCHANGED << callArgs, callRet, callPc, chainVars >>

\* the setTimeout callback of seekTo
SeekTimeout ==
    /\ callPc = "transport"
    /\ work.seekTimeout
    /\ work' = [work EXCEPT !.isSeeking = FALSE, !.seekTimeout = FALSE]
    /\ UNCHANGED << callArgs, callRet, callPc, chainVars >>

\* the audio clock: the playing source moves on and ends at the end of the buffer
Advance ==
    /\ callPc = "transport"
    /\ work.source # 0
    /\ work.state[work.source] = "playing"
    /\ work' = IF work.pos + 1 >= Duration
               THEN [work EXCEPT !.pos = Duration, !.state[work.source] = "finished",
                                 !.ended = @ \cup {work.source}]
               ELSE [work EXCEPT !.pos = @ + 1]
    /\ UNCHANGED << callArgs, callRet, callPc, chainVars >>

\* the setInterval callback of playAudio or seekTo
IntervalTick ==
    /\ callPc = "transport"
    /\ work.seekUpdateInterval # "none"
    /\ work.isPlaying /\ ~work.isSeeking
    /\ work' = IF work.pos >= Duration
               THEN [resetTransport(stopAudio(work)) EXCEPT !.restarted = FALSE]
               ELSE [work EXCEPT !.shown = work.pos]
    /\ work' # work
    /\ UNCHANGED << callArgs, callRet, callPc, chainVars >>

\* the ended event of source s reaches its onended handler
SourceEnded ==
    /\ callPc = "transport"
    /\ \E s \in work.ended :
          work' = IF work.handler[s] # "none" /\ work.isPlaying
                  THEN [work EXCEPT !.ended = @ \ {s}, !.isPlaying = FALSE,
                                    !.seekUpdateInterval = "none"]
                  ELSE [work EXCEPT !.ended = @ \ {s}]
    /\ UNCHANGED << callArgs, callRet, callPc, chainVars >>

NextTransport ==
    \/ PlayAudio
    \/ PauseAudio
    \/ StopAndReset
    \/ SeekTo
    \/ SeekTimeout
    \/ Advance
    \/ IntervalTick
    \/ SourceEnded

SpecTransport == InitTransport /\ [][NextTransport]_vars

\* timers and queued events run
SpecTransportFair ==
    /\ SpecTransport
    /\ WF_vars(SeekTimeout)
    /\ WF_vars(SourceEnded)
    /\ WF_vars(IntervalTick)

\* C29 as stated: after playback is restarted while audio was playing, the
\* transport stays in the playing state, with isPlaying true and the position
\* interval active, for as long as the new source plays (until it ends or
\* the user pauses or stops).
C29_RestartKeepsPlaying ==
    (callPc = "transport" /\ work.restarted /\ work.source # 0
        /\ work.state[work.source] = "playing") =>
        work.isPlaying /\ work.seekUpdateInterval # "none"

\* C30 as stated: whenever seekTo has taken the seek lock, the lock is
\* released later, also when restarting the source inside seekTo fails.
C30_SeekLockReleased ==
    (callPc = "transport" /\ work.isSeeking) ~> (callPc = "transport" /\ ~work.isSeeking)

=============================================================================
